---- MODULE Spec2Model ----
(***************************************************************************)
(* Model of the resilient access layer of the Joplin MCP server:           *)
(*   - models/connection.py      Connection (state machine, retry counter) *)
(*   - services/connection_manager.py  ConnectionManager                   *)
(*   - services/rate_limiter.py  RateLimiter (token bucket)                *)
(*   - server.py                 JoplinMCPServer.handle_tool_call          *)
(*   - services/search_service.py  SearchService, SearchCache              *)
(* Callers are asyncio tasks; an action is the code a task runs between    *)
(* two suspension points (await of the lock, of a probe, of a sleep).      *)
(***************************************************************************)
EXTENDS Integers, Sequences, FiniteSets, TLC

(* ---------------------------------------------------------------- bounds *)
NumCallers == 2
MaxRetriesBound == 3
MaxBurst == 2          \* largest burst_size configured
MaxTime == 2           \* the clock stops at MaxTime seconds
MaxRequests == 2       \* most entries kept in request_times
MaxTicks == 2          \* the search clock advances at most MaxTicks times

Callers == 1..NumCallers
Nobody == 0

(* ------------------------------------------------- models/connection.py *)
ConnectionState == {"disconnected", "connecting", "connected", "error"}

NoError == "none"
NoMsg == "none"
MsgConnectionFailed == "Connection failed"
MsgFailedAfter == "Failed after attempts"
MsgAttemptFailed == "Connection attempt failed"

Connection(m) ==
  [is_connected |-> "disconnected", last_error |-> NoError,
   retry_count |-> 0, max_retries |-> m]

valid_transitions ==
  [s \in ConnectionState |->
     CASE s = "disconnected" -> {"connecting"}
       [] s = "connecting" -> {"connected", "error", "disconnected"}
       [] s = "connected" -> {"disconnected", "error"}
       [] s = "error" -> {"connecting", "disconnected"}]

\* transition_to with the fields assigned before the table is consulted.
transition_to_assign_first(c, new_state, error_message) ==
  [conn |->
     [c EXCEPT !.is_connected = new_state,
               !.last_error =
                  IF new_state = "error" /\ error_message # NoMsg
                  THEN error_message
                  ELSE IF new_state = "connected" THEN NoError ELSE @,
               !.retry_count = IF new_state = "connected" THEN 0 ELSE @],
   raised |-> new_state \notin valid_transitions[c.is_connected]]

\* transition_to that leaves last_error and retry_count alone on Connected
transition_to_keep_error(c, new_state, error_message) ==
  IF new_state \notin valid_transitions[c.is_connected]
  THEN [conn |-> c, raised |-> TRUE]
  ELSE [conn |->
          [c EXCEPT !.is_connected = new_state,
                    !.last_error =
                       IF new_state = "error" /\ error_message # NoMsg
                       THEN error_message ELSE @],
        raised |-> FALSE]

\* Connection.transition_to: the result carries the connection after the
\* call and whether the call raised ValueError.
transition_to(c, new_state, error_message) ==
  IF new_state \notin valid_transitions[c.is_connected]
  THEN [conn |-> c, raised |-> TRUE]
  ELSE [conn |->
          [c EXCEPT !.is_connected = new_state,
                    !.last_error =
                       IF new_state = "error" /\ error_message # NoMsg
                       THEN error_message
                       ELSE IF new_state = "connected" THEN NoError ELSE @,
                    !.retry_count = IF new_state = "connected" THEN 0 ELSE @],
        raised |-> FALSE]

can_retry(c) == c.retry_count < c.max_retries

increment_retry(c) == [c EXCEPT !.retry_count = @ + 1]

reset_retry(c) == [c EXCEPT !.retry_count = 0]

(* --------------------------------------- services/connection_manager.py *)
\* One record per transition_to call made during a step.
LogEntry(c, new_state, t) ==
  [from |-> c.is_connected, to |-> new_state, raised |-> t.raised,
   before |-> c, after |-> t.conn]

\* The code between two suspension points of _connect_with_retry yields the
\* connection, the transition log and where the coroutine goes next:
\*   "ping"  await self.client.ping()        "sleep" await asyncio.sleep()
\*   "true"  return True                     "false" return False
\*   "raise" an exception leaves the coroutine
Seg(c, next, log) == [conn |-> c, next |-> next, log |-> log]

\* except Exception as e: (lines 105-122)
ExceptHandler(c, log) ==
  LET c1 == increment_retry(c)
      t1 == transition_to(c1, "error", MsgAttemptFailed)
      log1 == Append(log, LogEntry(c1, "error", t1))
  IN IF t1.raised THEN Seg(c1, "raise", log1)
     ELSE IF can_retry(t1.conn)
          THEN LET t2 == transition_to(t1.conn, "disconnected", NoMsg)
                   log2 == Append(log1, LogEntry(t1.conn, "disconnected", t2))
               IN IF t2.raised THEN Seg(t1.conn, "raise", log2)
                  ELSE Seg(t2.conn, "sleep", log2)
          ELSE Seg(t1.conn, "false", log1)

\* while connection.can_retry(): ... up to the probe (lines 60-75)
LoopHead(c, log) ==
  IF ~can_retry(c) THEN Seg(c, "false", log)
  ELSE IF c.is_connected # "connecting"
       THEN LET t == transition_to(c, "connecting", NoMsg)
                log1 == Append(log, LogEntry(c, "connecting", t))
            IN IF t.raised THEN ExceptHandler(c, log1)
               ELSE Seg(t.conn, "ping", log1)
       ELSE Seg(c, "ping", log)

\* _connect_with_retry entry (lines 57-60)
connect_with_retry(c, log) == LoopHead(reset_retry(c), log)

\* the probe returned True (lines 75-78)
PingTrue(c) ==
  LET t == transition_to(c, "connected", NoMsg)
      log1 == <<LogEntry(c, "connected", t)>>
  IN IF t.raised THEN ExceptHandler(c, log1) ELSE Seg(t.conn, "true", log1)

\* the probe returned False and the loop sleeps in state Error
PingFalseNoDisconnect(c) ==
  LET t == transition_to(c, "error", MsgConnectionFailed)
      log1 == <<LogEntry(c, "error", t)>>
  IN IF t.raised THEN ExceptHandler(c, log1)
     ELSE LET c1 == increment_retry(t.conn)
          IN IF can_retry(c1)
             THEN Seg(c1, "sleep", log1)
             ELSE LET t3 == transition_to(c1, "error", MsgFailedAfter)
                      log3 == Append(log1, LogEntry(c1, "error", t3))
                  IN IF t3.raised THEN ExceptHandler(c1, log3)
                     ELSE Seg(t3.conn, "false", log3)

\* the probe returned False (lines 80-103)
PingFalse(c) ==
  LET t == transition_to(c, "error", MsgConnectionFailed)
      log1 == <<LogEntry(c, "error", t)>>
  IN IF t.raised THEN ExceptHandler(c, log1)
     ELSE LET c1 == increment_retry(t.conn)
          IN IF can_retry(c1)
             THEN LET t2 == transition_to(c1, "disconnected", NoMsg)
                      log2 == Append(log1, LogEntry(c1, "disconnected", t2))
                  IN IF t2.raised THEN ExceptHandler(c1, log2)
                     ELSE Seg(t2.conn, "sleep", log2)
             ELSE LET t3 == transition_to(c1, "error", MsgFailedAfter)
                      log3 == Append(log1, LogEntry(c1, "error", t3))
                  IN IF t3.raised THEN ExceptHandler(c1, log3)
                     ELSE Seg(t3.conn, "false", log3)

\* the probe raised an exception (caught at line 105)
PingRaise(c) == ExceptHandler(c, <<>>)

\* What a probe can do.  JoplinClient.ping (joplin_client.py 62-99) returns
\* False on every httpx error; "raise" is the probe of a client whose ping
\* lets an exception out, the case the except clause at line 105 handles.
PingOutcome == {"ok", "fail", "raise"}

AfterPing(c, outcome) ==
  CASE outcome = "ok" -> PingTrue(c)
    [] outcome = "fail" -> PingFalse(c)
    [] outcome = "raise" -> PingRaise(c)

(* ---------------------------------------------- services/rate_limiter.py *)
\* The clock counts whole seconds.  tokens is a float in the code; here it
\* is kept exactly, in units of 1/Scale token: refill_rate =
\* requests_per_minute / 60.0 tokens per second is requests_per_minute
\* units per second.
Scale == 60
Window == 60

Min(a, b) == IF a < b THEN a ELSE b

RpmChoices == {0, 1, 60}
TokensRequested == {1, 2}   \* the tokens_requested passed to acquire
TickSteps == {1, 2}         \* seconds that pass between two steps

\* self.refill_rate = requests_per_minute / 60.0, in units per second
RefillRate(requests_per_minute) == (requests_per_minute * Scale) \div 60

\* RateLimiter.__init__ at time t
RateLimiter(rpm, burst, t) ==
  [requests_per_minute |-> rpm, burst_size |-> burst,
   tokens |-> burst * Scale, last_refill |-> t,
   refill_rate |-> RefillRate(rpm), request_times |-> <<>>]

\* while self.request_times and self.request_times[0] < cutoff_time: popleft
RECURSIVE PopOld(_, _)
PopOld(times, cutoff_time) ==
  IF times # <<>> /\ Head(times) < cutoff_time
  THEN PopOld(Tail(times), cutoff_time)
  ELSE times

\* _refill_tokens without the min() against burst_size
refill_tokens_unbounded(rl, current_time) ==
  LET time_elapsed == current_time - rl.last_refill
  IN IF time_elapsed > 0
     THEN [rl EXCEPT
             !.tokens = rl.tokens + time_elapsed * rl.refill_rate,
             !.last_refill = current_time,
             !.request_times = PopOld(@, current_time - Window)]
     ELSE rl

\* _refill_tokens that leaves last_refill where it was
refill_tokens_no_stamp(rl, current_time) ==
  LET time_elapsed == current_time - rl.last_refill
  IN IF time_elapsed > 0
     THEN [rl EXCEPT
             !.tokens = Min(rl.burst_size * Scale,
                            rl.tokens + time_elapsed * rl.refill_rate),
             !.request_times = PopOld(@, current_time - Window)]
     ELSE rl

\* _refill_tokens adding twice the tokens the elapsed time allows
refill_tokens_twice(rl, current_time) ==
  LET time_elapsed == current_time - rl.last_refill
  IN IF time_elapsed > 0
     THEN [rl EXCEPT
             !.tokens = Min(rl.burst_size * Scale,
                            rl.tokens + 2 * time_elapsed * rl.refill_rate),
             !.last_refill = current_time,
             !.request_times = PopOld(@, current_time - Window)]
     ELSE rl

\* _refill_tokens that never drops a timestamp
refill_tokens_no_pruning(rl, current_time) ==
  LET time_elapsed == current_time - rl.last_refill
  IN IF time_elapsed > 0
     THEN [rl EXCEPT
             !.tokens = Min(rl.burst_size * Scale,
                            rl.tokens + time_elapsed * rl.refill_rate),
             !.last_refill = current_time]
     ELSE rl

\* RateLimiter._refill_tokens
refill_tokens(rl, current_time) ==
  LET time_elapsed == current_time - rl.last_refill
  IN IF time_elapsed > 0
     THEN [rl EXCEPT
             !.tokens = Min(rl.burst_size * Scale,
                            rl.tokens + time_elapsed * rl.refill_rate),
             !.last_refill = current_time,
             !.request_times = PopOld(@, current_time - Window)]
     ELSE rl

\* acquire granting whenever the bucket is not empty
acquire_if_any(rl, tokens_requested, current_time) ==
  LET r == refill_tokens(rl, current_time)
  IN IF r.tokens > 0
     THEN [rl |-> [r EXCEPT !.tokens = @ - tokens_requested * Scale,
                            !.request_times = Append(@, current_time)],
           refilled |-> r.tokens, ok |-> TRUE]
     ELSE [rl |-> r, refilled |-> r.tokens, ok |-> FALSE]

\* acquire that grants without subtracting the tokens
acquire_no_debit(rl, tokens_requested, current_time) ==
  LET r == refill_tokens(rl, current_time)
  IN IF r.tokens >= tokens_requested * Scale
     THEN [rl |-> [r EXCEPT !.request_times = Append(@, current_time)],
           refilled |-> r.tokens, ok |-> TRUE]
     ELSE [rl |-> r, refilled |-> r.tokens, ok |-> FALSE]

\* acquire that needs more tokens than it was asked for
acquire_strict(rl, tokens_requested, current_time) ==
  LET r == refill_tokens(rl, current_time)
  IN IF r.tokens > tokens_requested * Scale
     THEN [rl |-> [r EXCEPT !.tokens = @ - tokens_requested * Scale,
                            !.request_times = Append(@, current_time)],
           refilled |-> r.tokens, ok |-> TRUE]
     ELSE [rl |-> r, refilled |-> r.tokens, ok |-> FALSE]

\* acquire that empties the bucket and stamps the call when it denies
acquire_drain_on_deny(rl, tokens_requested, current_time) ==
  LET r == refill_tokens(rl, current_time)
  IN IF r.tokens >= tokens_requested * Scale
     THEN [rl |-> [r EXCEPT !.tokens = @ - tokens_requested * Scale,
                            !.request_times = Append(@, current_time)],
           refilled |-> r.tokens, ok |-> TRUE]
     ELSE [rl |-> [r EXCEPT !.tokens = 0,
                            !.request_times = Append(@, current_time)],
           refilled |-> r.tokens, ok |-> FALSE]

\* RateLimiter.acquire, the body run under the lock (lines 43-71): the
\* limiter after the call, the post-refill token count and the result
acquire(rl, tokens_requested, current_time) ==
  LET r == refill_tokens(rl, current_time)
  IN IF r.tokens >= tokens_requested * Scale
     THEN [rl |-> [r EXCEPT !.tokens = @ - tokens_requested * Scale,
                            !.request_times = Append(@, current_time)],
           refilled |-> r.tokens, ok |-> TRUE]
     ELSE [rl |-> r, refilled |-> r.tokens, ok |-> FALSE]

\* RateLimiter.reset
reset(rl, current_time) ==
  [rl EXCEPT !.tokens = rl.burst_size * Scale,
             !.last_refill = current_time,
             !.request_times = <<>>]

NoArg == -1

\* RateLimiter.configure; NoArg stands for None
configure(rl, requests_per_minute, burst_size) ==
  LET r1 == IF requests_per_minute # NoArg
            THEN [rl EXCEPT !.requests_per_minute = requests_per_minute,
                            !.refill_rate = RefillRate(requests_per_minute)]
            ELSE rl
  IN IF burst_size # NoArg
     THEN [r1 EXCEPT !.burst_size = burst_size,
                     !.tokens = Min(r1.tokens, burst_size * Scale)]
     ELSE r1

(* ---------------------------------------------- services/search_service.py *)
\* A str is a sequence of one-character strings.
LowerChar(ch) == IF ch = "A" THEN "a" ELSE IF ch = "B" THEN "b" ELSE ch

\* str.lower()
Lower(s) == [i \in 1..Len(s) |-> LowerChar(s[i])]

IsSpace(ch) == ch = " "

\* \w of the re module
IsWordChar(ch) == ~IsSpace(ch)   \* the notes hold letters and blanks

RECURSIVE LStrip(_)
LStrip(s) == IF s # <<>> /\ IsSpace(Head(s)) THEN LStrip(Tail(s)) ELSE s

RECURSIVE RStrip(_)
RStrip(s) ==
  IF s # <<>> /\ IsSpace(s[Len(s)])
  THEN RStrip(SubSeq(s, 1, Len(s) - 1))
  ELSE s

\* str.strip()
Strip(s) == RStrip(LStrip(s))

\* s[:n] for n >= 0
Truncate(s, n) == SubSeq(s, 1, Min(n, Len(s)))

\* sub occurs in s at offset i (0-based)
MatchAt(sub, s, i) ==
  /\ i + Len(sub) <= Len(s)
  /\ SubSeq(s, i + 1, i + Len(sub)) = sub

\* sub in s
Contains(sub, s) == \E i \in 0..Len(s) : MatchAt(sub, s, i)

\* s.startswith(sub)
StartsWith(s, sub) == MatchAt(sub, s, 0)

\* s.find(sub): the first offset, or -1
Find(sub, s) ==
  IF Contains(sub, s)
  THEN CHOOSE i \in 0..Len(s) :
         MatchAt(sub, s, i) /\ \A j \in 0..(i - 1) : ~MatchAt(sub, s, j)
  ELSE -1

\* the first offset >= i at which sub occurs in s, or -1
FindFrom(sub, s, i) ==
  IF \E k \in i..Len(s) : MatchAt(sub, s, k)
  THEN CHOOSE k \in i..Len(s) :
         MatchAt(sub, s, k) /\ \A j \in i..(k - 1) : ~MatchAt(sub, s, j)
  ELSE -1

\* len(re.findall(re.escape(sub), s)): matches left to right, not
\* overlapping; the empty pattern matches at every offset
RECURSIVE CountFrom(_, _, _)
CountFrom(sub, s, i) ==
  LET k == FindFrom(sub, s, i)
  IN IF k = -1 THEN 0 ELSE 1 + CountFrom(sub, s, k + Len(sub))

FindAllCount(sub, s) ==
  IF sub = <<>> THEN Len(s) + 1 ELSE CountFrom(sub, s, 0)

\* \b at offset p of s: a word character on exactly one side
WordBoundary(s, p) ==
  LET before == p >= 1 /\ IsWordChar(s[p])
      after == p < Len(s) /\ IsWordChar(s[p + 1])
  IN before # after

\* bool(re.search(r"\b" + re.escape(sub) + r"\b", s))
WordSearch(sub, s) ==
  \E i \in 0..Len(s) :
     /\ MatchAt(sub, s, i)
     /\ WordBoundary(s, i)
     /\ WordBoundary(s, i + Len(sub))

\* " ".join(s.split()): the characters kept are those that are not
\* whitespace and the first blank of every run that has a word on both sides
Collapse(s) ==
  LET kept == {i \in 1..Len(s) :
                 \/ ~IsSpace(s[i])
                 \/ /\ i > 1 /\ ~IsSpace(s[i - 1])
                    /\ \E j \in (i + 1)..Len(s) : ~IsSpace(s[j])}
      nth(k) == CHOOSE i \in kept : Cardinality({j \in kept : j <= i}) = k
  IN [k \in 1..Cardinality(kept) |-> s[nth(k)]]

Max(a, b) == IF a > b THEN a ELSE b

\* Scores are kept exactly, in units of 1/ScoreScale: the weights of
\* _calculate_relevance are multiples of 0.1 and the sum is halved.
ScoreScale == 20
Weight(tenths) == tenths * (ScoreScale \div 10)

\* the tags that contain the query (line 200)
RECURSIVE TagMatches(_, _)
TagMatches(query_lower, tags) ==
  IF tags = <<>> THEN 0
  ELSE (IF Contains(query_lower, Lower(Head(tags))) THEN 1 ELSE 0)
         + TagMatches(query_lower, Tail(tags))

\* the sum of the bonuses of _calculate_relevance (lines 162-202)
RawScore(query, item) ==
  LET query_lower == Strip(Lower(query))
      title_lower == Lower(item.title)
      body_lower == Lower(item.body)
      title_part ==
        IF Contains(query_lower, title_lower)
        THEN Weight(10)
               + (IF query_lower = title_lower THEN Weight(5)
                  ELSE IF StartsWith(title_lower, query_lower) THEN Weight(3)
                  ELSE 0)
        ELSE 0
      body_matches == FindAllCount(query_lower, body_lower)
      body_part ==
        IF body_matches > 0 THEN Min(Weight(5), body_matches * Weight(1))
        ELSE 0
      word_part ==
        (IF WordSearch(query_lower, title_lower) THEN Weight(2) ELSE 0)
          + (IF WordSearch(query_lower, body_lower) THEN Weight(1) ELSE 0)
      tag_matches == TagMatches(query_lower, item.tags)
      tag_part ==
        IF tag_matches > 0 THEN Min(Weight(3), tag_matches * Weight(1))
        ELSE 0
  IN title_part + body_part + word_part + tag_part

\* _calculate_relevance without the clamp into [0.1, 1.0]
calculate_relevance_unclamped(query, item) == RawScore(query, item) \div 2

\* _calculate_relevance with the title match weighted like a body match
calculate_relevance_flat(query, item) ==
  LET raw == RawScore(query, item)
      flat == IF raw >= Weight(10) THEN raw - Weight(9) ELSE raw
  IN Max(Weight(1), Min(ScoreScale, flat \div 2))

\* SearchService._calculate_relevance: max(0.1, min(1.0, score / 2.0))
calculate_relevance(query, item) ==
  Max(Weight(1), Min(ScoreScale, RawScore(query, item) \div 2))

snippet_length == 200
ContextBefore == 50
TitleLimit == 200
Ellipsis == <<".", ".", ".">>

\* _generate_snippet that marks both ends of every window cut from the body
generate_snippet_always_marked(query, item) ==
  LET title == item.title
      body == item.body
      query_lower == Strip(Lower(query))
  IN IF Contains(query_lower, Lower(title)) THEN Truncate(title, TitleLimit)
     ELSE IF body = <<>> THEN Truncate(title, TitleLimit)
     ELSE LET match_pos == Find(query_lower, Lower(body))
          IN IF match_pos = -1
             THEN Truncate(IF Len(body) > Len(title) THEN body ELSE title,
                           TitleLimit)
             ELSE LET start0 == Max(0, match_pos - ContextBefore)
                      end_pos == Min(Len(body), start0 + snippet_length)
                      start_pos ==
                        IF end_pos - start0 < snippet_length
                        THEN Max(0, end_pos - snippet_length)
                        ELSE start0
                      window == SubSeq(body, start_pos + 1, end_pos)
                  IN Collapse(Ellipsis \o window \o Ellipsis)

\* SearchService._generate_snippet (lines 240-283)
generate_snippet(query, item) ==
  LET title == item.title
      body == item.body
      query_lower == Strip(Lower(query))
  IN IF Contains(query_lower, Lower(title)) THEN Truncate(title, TitleLimit)
     ELSE IF body = <<>> THEN Truncate(title, TitleLimit)
     ELSE LET match_pos == Find(query_lower, Lower(body))
          IN IF match_pos = -1
             THEN Truncate(IF Len(body) > Len(title) THEN body ELSE title,
                           TitleLimit)
             ELSE LET start0 == Max(0, match_pos - ContextBefore)
                      end_pos == Min(Len(body), start0 + snippet_length)
                      start_pos ==
                        IF end_pos - start0 < snippet_length
                        THEN Max(0, end_pos - snippet_length)
                        ELSE start0
                      window == SubSeq(body, start_pos + 1, end_pos)
                      pre == IF start_pos > 0 THEN Ellipsis \o window
                             ELSE window
                      post == IF end_pos < Len(body) THEN pre \o Ellipsis
                              ELSE pre
                  IN Collapse(post)

\* SearchResultItem built for one upstream item (lines 119-127)
SearchResultItem(query, item) ==
  [note_id |-> item.id, title |-> item.title,
   snippet |-> generate_snippet(query, item),
   relevance_score |-> calculate_relevance(query, item)]

\* the sort with each item placed ahead of those scoring the same
RECURSIVE sort_by_score_ties_reversed(_)
sort_by_score_ties_reversed(items) ==
  IF items = <<>> THEN <<>>
  ELSE LET n == Len(items)
           rest == sort_by_score_ties_reversed(SubSeq(items, 1, n - 1))
           x == items[n]
           k == Cardinality({i \in 1..Len(rest) :
                               rest[i].relevance_score > x.relevance_score})
       IN SubSeq(rest, 1, k) \o <<x>> \o SubSeq(rest, k + 1, Len(rest))

\* scored_results.sort(key=lambda x: x.relevance_score, reverse=True): a
\* stable sort, each item placed behind those scoring at least as much
RECURSIVE sort_by_score(_)
sort_by_score(items) ==
  IF items = <<>> THEN <<>>
  ELSE LET n == Len(items)
           rest == sort_by_score(SubSeq(items, 1, n - 1))
           x == items[n]
           k == Cardinality({i \in 1..Len(rest) :
                               rest[i].relevance_score >= x.relevance_score})
       IN SubSeq(rest, 1, k) \o <<x>> \o SubSeq(rest, k + 1, Len(rest))

\* lst[:limit], a negative limit counting from the end
Slice(lst, limit) ==
  IF limit >= 0 THEN SubSeq(lst, 1, Min(limit, Len(lst)))
  ELSE SubSeq(lst, 1, Max(0, Len(lst) + limit))

\* lines 116-132: score every item, sort, cut to limit
score_and_rank(query, items, limit) ==
  Slice(sort_by_score([i \in 1..Len(items) |->
                         SearchResultItem(query, items[i])]),
        limit)

\* str() of an integer, as the f-string of line 287 formats the limit
Digit(d) ==
  CASE d = 0 -> "0" [] d = 1 -> "1" [] d = 2 -> "2" [] d = 3 -> "3"
    [] d = 4 -> "4" [] d = 5 -> "5" [] d = 6 -> "6" [] d = 7 -> "7"
    [] d = 8 -> "8" [] OTHER -> "9"

RECURSIVE NatStr(_)
NatStr(n) ==
  IF n < 10 THEN <<Digit(n)>> ELSE NatStr(n \div 10) \o <<Digit(n % 10)>>

IntStr(n) == IF n < 0 THEN <<"-">> \o NatStr(0 - n) ELSE NatStr(n)

\* _create_cache_key (lines 285-287): the three parts joined by ':' into one
\* string; a notebook_id of None (or '') is written 'all'
NoNotebook == <<>>
AllNotebooks == <<"a", "l", "l">>
create_cache_key(query, limit, notebook_id) ==
  Lower(Strip(query)) \o <<":">> \o IntStr(limit) \o <<":">>
    \o (IF notebook_id = NoNotebook THEN AllNotebooks ELSE notebook_id)

\* SearchCache: a dict from key to (timestamp, results)
NoEntry == [timestamp |-> -1, results |-> <<>>]
EmptyCache == [k \in {} |-> NoEntry]

Entry(c, key) == IF key \in DOMAIN c THEN c[key] ELSE NoEntry

Remove(c, keys) == [k \in DOMAIN c \ keys |-> c[k]]

\* SearchCache.get that never expires an entry
cache_get_no_expiry(c, key, ttl_seconds, current_time) ==
  IF key \notin DOMAIN c THEN [cache |-> c, found |-> FALSE, results |-> <<>>]
  ELSE [cache |-> c, found |-> TRUE, results |-> c[key].results]

\* SearchCache.get (lines 22-33): the cache after the call and the value
\* returned, found = FALSE standing for None
cache_get(c, key, ttl_seconds, current_time) ==
  IF key \notin DOMAIN c THEN [cache |-> c, found |-> FALSE, results |-> <<>>]
  ELSE IF current_time - c[key].timestamp > ttl_seconds
       THEN [cache |-> Remove(c, {key}), found |-> FALSE, results |-> <<>>]
       ELSE [cache |-> c, found |-> TRUE, results |-> c[key].results]

\* SearchCache.set (lines 35-37)
cache_set(c, key, results, current_time) ==
  [k \in DOMAIN c \cup {key} |->
     IF k = key THEN [timestamp |-> current_time, results |-> results]
     ELSE c[k]]

\* SearchCache.cleanup_expired (lines 43-52)
cleanup_expired(c, ttl_seconds, current_time) ==
  Remove(c, {k \in DOMAIN c : current_time - c[k].timestamp > ttl_seconds})

CleanupInterval == 300
DefaultTtl == 300

\* SearchResult(query=...) passes validate_query (search_result.py 132-137)
ValidQuery(query) == Strip(query) # <<>>

QueryLimit == 200

\* SearchService._sanitize_query (lines 301-313); no method of the service
\* calls it
sanitize_query(query) ==
  IF query = <<>> THEN <<>> ELSE Truncate(Collapse(query), QueryLimit)

\* what search_notes makes of its query argument: the cache key of line 73
\* and the query parameter handed to client.search_notes (lines 100-102)
prepare_query(query, limit, notebook_id) ==
  [key |-> create_cache_key(query, limit, notebook_id), sent |-> query]

(* ------------------------------------------------------------- variables *)
VARIABLES
  connection,   \* JoplinClient.connection (models/connection.py Connection)
  lock,         \* ConnectionManager._lock: the caller holding it, or Nobody
  closed,       \* JoplinClient.close() has been awaited
  pc,           \* position of every caller's coroutine
  op,           \* the operation the caller is running
  ret,          \* what ensure_connected returned to the caller's tool call
  observed,     \* outcome of another caller's ensure_connected retry loop
                \* that ended while this caller waited for the lock
  att,          \* the operation holding the lock: connection state on
                \* entry, probes issued, retry loops entered
  ended,        \* the operation that ended in the last step, if any
  tlog,         \* the transition_to calls made by the last step
  limiter,      \* the RateLimiter instance
  now,          \* time.time(), in seconds
  want,         \* tokens_requested of the caller's pending acquire
  rlog,         \* the RateLimiter call of the last step: its argument, the tokens before
                \* a reset or configure, the tokens after the refill pass
                \* or the call, and the result
  batch,        \* acquire(1) calls granted and denied on a bucket that was
                \* full, with no time elapsed and no configure since
  grants,       \* history kept by AcquireRecorded: the tokens it has
                \* granted since __init__, or since the last reset or
                \* configure, at each time of a grant
  waiting,      \* every caller's wait_for_tokens call: start_time, timeout,
                \* the end of its sleep, its acquire attempts and what it
                \* returned
  trace,        \* steps run so far by the caller's tool invocation
  cache,        \* SearchService.cache.cache: key -> (timestamp, results)
  ttl,          \* SearchCache.ttl
  last_cleanup, \* SearchService._last_cleanup
  clock,        \* time.time() as the search service reads it
  spc,          \* every caller's search_notes call: idle, or awaiting
                \* the upstream with its query and limit
  slog,         \* the search step just taken: the entry found in the
                \* cache, the upstream answer, the items returned
  fn,           \* one upstream item being scored, and its result item
  prep          \* two queries given to search_notes, and the cache key and
                \* upstream parameter made of each

connVars ==
  <<connection, lock, closed, pc, op, ret, observed, att, ended, tlog>>
rlVars == <<limiter, now, want, rlog, batch, grants, waiting>>

searchVars == <<cache, ttl, last_cleanup, clock, spc, slog, fn, prep>>

vars == <<connVars, rlVars, trace, searchVars>>

NoAttempt == [entry |-> "none", pings |-> 0, loops |-> 0]

NoEnd ==
  [caller |-> Nobody, op |-> "none", ret |-> "none", entry |-> "none",
   pings |-> 0, loops |-> 0, observed |-> "none", state |-> "none",
   trace |-> <<>>, outcome |-> "none"]

\* caller c's operation ends: what it returned, what it did, and the
\* connection state it leaves
End(c, result, a, state, tr, out) ==
  [caller |-> c, op |-> op[c], ret |-> result, entry |-> a.entry,
   pings |-> a.pings, loops |-> a.loops, observed |-> observed[c],
   state |-> state, trace |-> tr, outcome |-> out]

(* ----------------------------------------------- ConnectionManager actions *)
\* Continue with the lock given up for the retry_delay sleep.
ContinueReleasing(c, r, inLoop, a, tr) ==
  /\ connection' = r.conn
  /\ tlog' = r.log
  /\ IF r.next \in {"ping", "sleep"}
     THEN /\ pc' = [pc EXCEPT ![c] =
                      IF r.next = "ping" THEN "cwr_ping" ELSE "cwr_sleep"]
          /\ lock' = IF r.next = "ping" THEN c ELSE Nobody
          /\ att' = a
          /\ ended' = NoEnd
          /\ trace' = [trace EXCEPT ![c] = tr]
          /\ UNCHANGED <<op, ret, observed>>
     ELSE /\ lock' = Nobody
          /\ att' = NoAttempt
          /\ observed' =
               [x \in Callers |->
                  IF x = c THEN "none"
                  ELSE IF /\ pc[x] = "ec_lock"
                          /\ op[c] = "ensure_connected"
                          /\ op[x] = "ensure_connected"
                          /\ inLoop
                       THEN r.next ELSE observed[x]]
          /\ IF op[c] = "tool" /\ r.next # "raise"
             THEN /\ pc' = [pc EXCEPT ![c] = "t_exec"]
                  /\ ret' = [ret EXCEPT ![c] = r.next]
                  /\ trace' = [trace EXCEPT ![c] = tr]
                  /\ ended' = NoEnd
                  /\ UNCHANGED op
             ELSE /\ pc' = [pc EXCEPT ![c] = "idle"]
                  /\ op' = [op EXCEPT ![c] = "none"]
                  /\ trace' = [trace EXCEPT ![c] = <<>>]
                  /\ ended' = End(c, r.next, a, r.conn.is_connected, tr,
                                  IF op[c] = "tool" THEN "error" ELSE "none")
                  /\ UNCHANGED ret

\* Continue keeping the lock when the operation ends by raising
ContinueHoldingOnRaise(c, r, inLoop, a, tr) ==
  /\ connection' = r.conn
  /\ tlog' = r.log
  /\ IF r.next \in {"ping", "sleep"}
     THEN /\ pc' = [pc EXCEPT ![c] =
                      IF r.next = "ping" THEN "cwr_ping" ELSE "cwr_sleep"]
          /\ lock' = c
          /\ att' = a
          /\ ended' = NoEnd
          /\ trace' = [trace EXCEPT ![c] = tr]
          /\ UNCHANGED <<op, ret, observed>>
     ELSE /\ lock' = IF r.next = "raise" THEN c ELSE Nobody
          /\ att' = NoAttempt
          /\ observed' =
               [x \in Callers |->
                  IF x = c THEN "none"
                  ELSE IF /\ pc[x] = "ec_lock"
                          /\ op[c] = "ensure_connected"
                          /\ op[x] = "ensure_connected"
                          /\ inLoop
                       THEN r.next ELSE observed[x]]
          /\ IF op[c] = "tool" /\ r.next # "raise"
             THEN /\ pc' = [pc EXCEPT ![c] = "t_exec"]
                  /\ ret' = [ret EXCEPT ![c] = r.next]
                  /\ trace' = [trace EXCEPT ![c] = tr]
                  /\ ended' = NoEnd
                  /\ UNCHANGED op
             ELSE /\ pc' = [pc EXCEPT ![c] = "idle"]
                  /\ op' = [op EXCEPT ![c] = "none"]
                  /\ trace' = [trace EXCEPT ![c] = <<>>]
                  /\ ended' = End(c, r.next, a, r.conn.is_connected, tr,
                                  IF op[c] = "tool" THEN "error" ELSE "none")
                  /\ UNCHANGED ret

\* The caller's coroutine leaves the segment result r: it suspends on a
\* probe or a sleep while holding the lock, or the operation ends and
\* `async with self._lock` releases the lock.  inLoop: r ends a retry loop;
\* a, tr: the attempt and the caller's trace after this step.
\* Inside handle_tool_call (server.py lines 130-134) the value returned by
\* ensure_connected is dropped and the tool is executed next; an exception
\* goes to ErrorHandler.handle_tool_error (lines 142-144).
Continue(c, r, inLoop, a, tr) ==
  /\ connection' = r.conn
  /\ tlog' = r.log
  /\ IF r.next \in {"ping", "sleep"}
     THEN /\ pc' = [pc EXCEPT ![c] =
                      IF r.next = "ping" THEN "cwr_ping" ELSE "cwr_sleep"]
          /\ lock' = c
          /\ att' = a
          /\ ended' = NoEnd
          /\ trace' = [trace EXCEPT ![c] = tr]
          /\ UNCHANGED <<op, ret, observed>>
     ELSE /\ lock' = Nobody
          /\ att' = NoAttempt
          /\ observed' =
               [x \in Callers |->
                  IF x = c THEN "none"
                  ELSE IF /\ pc[x] = "ec_lock"
                          /\ op[c] = "ensure_connected"
                          /\ op[x] = "ensure_connected"
                          /\ inLoop
                       THEN r.next ELSE observed[x]]
          /\ IF op[c] = "tool" /\ r.next # "raise"
             THEN /\ pc' = [pc EXCEPT ![c] = "t_exec"]
                  /\ ret' = [ret EXCEPT ![c] = r.next]
                  /\ trace' = [trace EXCEPT ![c] = tr]
                  /\ ended' = NoEnd
                  /\ UNCHANGED op
             ELSE /\ pc' = [pc EXCEPT ![c] = "idle"]
                  /\ op' = [op EXCEPT ![c] = "none"]
                  /\ trace' = [trace EXCEPT ![c] = <<>>]
                  /\ ended' = End(c, r.next, a, r.conn.is_connected, tr,
                                  IF op[c] = "tool" THEN "error" ELSE "none")
                  /\ UNCHANGED ret

Probed(a) == [a EXCEPT !.pings = @ + 1]
Looped(a) == [a EXCEPT !.loops = @ + 1]

Invoke(c, name, at) ==
  /\ pc[c] = "idle"
  /\ pc' = [pc EXCEPT ![c] = at]
  /\ op' = [op EXCEPT ![c] = name]
  /\ tlog' = <<>>
  /\ ended' = NoEnd
  /\ UNCHANGED <<connection, lock, closed, ret, observed, att, rlVars, trace>>
  /\ UNCHANGED searchVars

\* a caller invokes ensure_connected() and waits for the lock (line 42)
CallEnsureConnected(c) == Invoke(c, "ensure_connected", "ec_lock")

\* ensure_connected entered by a waiter that hands on the failure it waited
\* for instead of probing again
EnsureConnectedEnterShared(c) ==
  /\ pc[c] = "ec_lock"
  /\ lock = Nobody
  /\ LET a == [NoAttempt EXCEPT !.entry = connection.is_connected]
         tr == IF op[c] = "tool"
               THEN Append(trace[c], "ensure_connected") ELSE trace[c]
     IN IF connection.is_connected = "connected"
        THEN /\ lock' = c
             /\ pc' = [pc EXCEPT ![c] = "ec_ping"]
             /\ att' = a
             /\ trace' = [trace EXCEPT ![c] = tr]
             /\ tlog' = <<>>
             /\ ended' = NoEnd
             /\ UNCHANGED <<connection, op, ret, observed>>
        ELSE IF observed[c] = "false"
             THEN Continue(c, Seg(connection, "false", <<>>), FALSE, a, tr)
             ELSE Continue(c, connect_with_retry(connection, <<>>), TRUE,
                           Looped(a), tr)
  /\ UNCHANGED <<closed, rlVars>>
  /\ UNCHANGED searchVars

\* ensure_connected obtains the lock (lines 42-53)
EnsureConnectedEnter(c) ==
  /\ pc[c] = "ec_lock"
  /\ lock = Nobody
  /\ LET a == [NoAttempt EXCEPT !.entry = connection.is_connected]
         tr == IF op[c] = "tool"
               THEN Append(trace[c], "ensure_connected") ELSE trace[c]
     IN IF connection.is_connected = "connected"
        THEN /\ lock' = c
             /\ pc' = [pc EXCEPT ![c] = "ec_ping"]
             /\ att' = a
             /\ trace' = [trace EXCEPT ![c] = tr]
             /\ tlog' = <<>>
             /\ ended' = NoEnd
             /\ UNCHANGED <<connection, op, ret, observed>>
        ELSE Continue(c, connect_with_retry(connection, <<>>), TRUE,
                      Looped(a), tr)
  /\ UNCHANGED <<closed, rlVars>>
  /\ UNCHANGED searchVars

\* ensure_connected returning False when the liveness probe fails
EnsureConnectedPingGivingUp(c, outcome) ==
  /\ pc[c] = "ec_ping"
  /\ CASE outcome = "ok" ->
            Continue(c, Seg(connection, "true", <<>>), FALSE,
                     Probed(att), trace[c])
       [] outcome = "raise" ->
            Continue(c, Seg(connection, "raise", <<>>), FALSE,
                     Probed(att), trace[c])
       [] outcome = "fail" ->
            LET t == transition_to(connection, "disconnected", NoMsg)
                log1 == <<LogEntry(connection, "disconnected", t)>>
            IN Continue(c, Seg(t.conn, IF t.raised THEN "raise" ELSE "false",
                               log1),
                        FALSE, Probed(att), trace[c])
  /\ UNCHANGED <<closed, rlVars>>
  /\ UNCHANGED searchVars

\* the liveness probe of a Connected manager completes (lines 47-53)
EnsureConnectedPing(c, outcome) ==
  /\ pc[c] = "ec_ping"
  /\ CASE outcome = "ok" ->
            Continue(c, Seg(connection, "true", <<>>), FALSE,
                     Probed(att), trace[c])
       [] outcome = "raise" ->
            Continue(c, Seg(connection, "raise", <<>>), FALSE,
                     Probed(att), trace[c])
       [] outcome = "fail" ->
            LET t == transition_to(connection, "disconnected", NoMsg)
                log1 == <<LogEntry(connection, "disconnected", t)>>
            IN IF t.raised
               THEN Continue(c, Seg(connection, "raise", log1), FALSE,
                             Probed(att), trace[c])
               ELSE Continue(c, connect_with_retry(t.conn, log1), TRUE,
                             Looped(Probed(att)), trace[c])
  /\ UNCHANGED <<closed, rlVars>>
  /\ UNCHANGED searchVars

\* a probe of the retry loop completes (lines 75-122)
ConnectPing(c, outcome) ==
  /\ pc[c] = "cwr_ping"
  /\ Continue(c, AfterPing(connection, outcome), TRUE, Probed(att), trace[c])
  /\ UNCHANGED <<closed, rlVars>>
  /\ UNCHANGED searchVars

\* asyncio.sleep(self.retry_delay) is over; back to the loop test (line 60)
RetryWake(c) ==
  /\ pc[c] = "cwr_sleep"
  /\ Continue(c, LoopHead(connection, <<>>), TRUE, att, trace[c])
  /\ UNCHANGED <<closed, rlVars>>
  /\ UNCHANGED searchVars

\* a caller invokes reconnect() and waits for the lock (line 136)
CallReconnect(c) == Invoke(c, "reconnect", "rc_lock")

\* reconnect obtains the lock (lines 136-143)
ReconnectEnter(c) ==
  /\ pc[c] = "rc_lock"
  /\ lock = Nobody
  /\ LET a == [NoAttempt EXCEPT !.entry = connection.is_connected]
         t == transition_to(connection, "disconnected", NoMsg)
         log1 == <<LogEntry(connection, "disconnected", t)>>
     IN IF t.raised
        THEN Continue(c, Seg(connection, "raise", log1), FALSE, a, trace[c])
        ELSE Continue(c, connect_with_retry(reset_retry(t.conn), log1), TRUE,
                      Looped(a), trace[c])
  /\ UNCHANGED <<closed, rlVars>>
  /\ UNCHANGED searchVars

\* a caller invokes disconnect() and waits for the lock (line 147)
CallDisconnect(c) == Invoke(c, "disconnect", "dc_lock")

\* disconnect obtains the lock (lines 147-150)
DisconnectEnter(c) ==
  /\ pc[c] = "dc_lock"
  /\ lock = Nobody
  /\ LET a == [NoAttempt EXCEPT !.entry = connection.is_connected]
         t == transition_to(connection, "disconnected", NoMsg)
         log1 == <<LogEntry(connection, "disconnected", t)>>
     IN IF t.raised
        THEN Continue(c, Seg(connection, "raise", log1), FALSE, a, trace[c])
        ELSE /\ connection' = t.conn
             /\ tlog' = log1
             /\ lock' = c
             /\ att' = a
             /\ pc' = [pc EXCEPT ![c] = "dc_close"]
             /\ ended' = NoEnd
             /\ UNCHANGED <<op, ret, observed, trace>>
  /\ UNCHANGED <<closed, rlVars>>
  /\ UNCHANGED searchVars

\* await self.client.close() returns and the lock is released (line 150)
DisconnectClose(c) ==
  /\ pc[c] = "dc_close"
  /\ closed' = TRUE
  /\ pc' = [pc EXCEPT ![c] = "idle"]
  /\ op' = [op EXCEPT ![c] = "none"]
  /\ lock' = Nobody
  /\ att' = NoAttempt
  /\ ended' = End(c, "returned", att, connection.is_connected, <<>>, "none")
  /\ tlog' = <<>>
  /\ UNCHANGED <<connection, ret, observed, rlVars, trace>>
  /\ UNCHANGED searchVars

\* a caller invokes health_check(); the probe is issued without the lock
\* (lines 152-168)
CallHealthCheck(c) == Invoke(c, "health_check", "hc_ping")

\* health_check recording a failed probe on the connection
HealthCheckPingRecording(c, outcome) ==
  /\ pc[c] = "hc_ping"
  /\ pc' = [pc EXCEPT ![c] = "idle"]
  /\ op' = [op EXCEPT ![c] = "none"]
  /\ connection' = IF outcome = "ok" THEN connection
                   ELSE [connection EXCEPT !.last_error = MsgConnectionFailed]
  /\ ended' = End(c, "returned", Probed(NoAttempt), connection.is_connected,
                  <<>>, outcome)
  /\ tlog' = <<>>
  /\ UNCHANGED <<lock, closed, ret, observed, att, rlVars, trace>>
  /\ UNCHANGED searchVars

\* the health probe completes (lines 168-189): the result is only reported
HealthCheckPing(c, outcome) ==
  /\ pc[c] = "hc_ping"
  /\ pc' = [pc EXCEPT ![c] = "idle"]
  /\ op' = [op EXCEPT ![c] = "none"]
  /\ ended' = End(c, "returned", Probed(NoAttempt), connection.is_connected,
                  <<>>, outcome)
  /\ tlog' = <<>>
  /\ UNCHANGED <<connection, lock, closed, ret, observed, att, rlVars, trace>>
  /\ UNCHANGED searchVars

(* ----------------------------------------------------- RateLimiter actions *)
\* `async with self._lock` never suspends in acquire, get_status and reset:
\* the lock is free whenever a task reaches it, because no task awaits
\* while holding it.  The body of each runs as one step.
NoCall == [op |-> "none", n |-> 0, before |-> 0, refilled |-> 0, ok |-> FALSE]
FullBucket == [clean |-> TRUE, ok |-> 0, denied |-> 0]
Disturbed == [clean |-> FALSE, ok |-> 0, denied |-> 0]

CountAcquire(n, ok) ==
  IF batch.clean /\ n = 1
  THEN [batch EXCEPT !.ok = @ + (IF ok THEN 1 ELSE 0),
                     !.denied = @ + (IF ok THEN 0 ELSE 1)]
  ELSE Disturbed

\* the history of grants after an acquire(n) call made now
NoGrants == [t \in {} |-> 0]
Granted(n, ok) ==
  IF ok
  THEN [t \in DOMAIN grants \cup {now} |->
          (IF t \in DOMAIN grants THEN grants[t] ELSE 0)
            + (IF t = now THEN n ELSE 0)]
  ELSE grants

\* the model keeps at most MaxRequests timestamps, and counts at most two
\* calls more than the largest bucket holds on an undisturbed bucket
CanRecord(a) ==
  /\ Len(a.rl.request_times) <= MaxRequests
  /\ batch.clean => batch.ok + batch.denied < MaxBurst + 2

\* a caller's task calls acquire(n) and is scheduled (line 40)
CallAcquire(c, n) ==
  /\ pc[c] = "idle"
  /\ pc' = [pc EXCEPT ![c] = "acq"]
  /\ op' = [op EXCEPT ![c] = "acquire"]
  /\ want' = [want EXCEPT ![c] = n]
  /\ rlog' = NoCall
  /\ UNCHANGED <<connection, lock, closed, ret, observed, att, ended, tlog,
                 limiter, now, batch, grants, waiting, trace>>
  /\ UNCHANGED searchVars

\* the task runs acquire (lines 42-71) and its caller takes the result;
\* recorded: the grant is added to the history
AcquireRun(c, recorded) ==
  /\ pc[c] = "acq"
  /\ LET a == acquire(limiter, want[c], now)
     IN /\ CanRecord(a)
        /\ limiter' = a.rl
        /\ rlog' = [op |-> "acquire", n |-> want[c], before |-> 0,
                    refilled |-> a.refilled, ok |-> a.ok]
        /\ batch' = CountAcquire(want[c], a.ok)
        /\ grants' = IF recorded THEN Granted(want[c], a.ok) ELSE grants
  /\ pc' = [pc EXCEPT ![c] = "idle"]
  /\ op' = [op EXCEPT ![c] = "none"]
  /\ want' = [want EXCEPT ![c] = 0]
  /\ UNCHANGED <<connection, lock, closed, ret, observed, att, ended, tlog,
                 now, waiting, trace>>
  /\ UNCHANGED searchVars

Acquire(c) == AcquireRun(c, FALSE)
AcquireRecorded(c) == AcquireRun(c, TRUE)

\* get_status (lines 118-141); it raises ZeroDivisionError at line 137
\* when requests_per_minute is 0, after the refill pass
GetStatus ==
  /\ limiter' = refill_tokens(limiter, now)
  /\ rlog' = [op |-> "get_status", n |-> 0, before |-> 0,
              refilled |-> limiter'.tokens,
              ok |-> limiter.requests_per_minute # 0]
  /\ UNCHANGED <<connVars, now, want, batch, grants, waiting, trace>>
  /\ UNCHANGED searchVars

\* reset (lines 143-150)
Reset ==
  /\ limiter' = reset(limiter, now)
  /\ rlog' = [op |-> "reset", n |-> 0, before |-> limiter.tokens,
              refilled |-> limiter'.tokens, ok |-> TRUE]
  /\ batch' = FullBucket
  /\ grants' = NoGrants
  /\ UNCHANGED <<connVars, now, want, waiting, trace>>
  /\ UNCHANGED searchVars

\* configure (lines 152-171)
Configure(requests_per_minute, burst_size) ==
  /\ limiter' = configure(limiter, requests_per_minute, burst_size)
  /\ rlog' = [op |-> "configure", n |-> burst_size,
              before |-> limiter.tokens, refilled |-> limiter'.tokens,
              ok |-> TRUE]
  /\ batch' = Disturbed
  /\ grants' = NoGrants
  /\ UNCHANGED <<connVars, now, want, waiting, trace>>
  /\ UNCHANGED searchVars

\* time passes
Tick(d) ==
  /\ now + d <= MaxTime
  /\ now' = now + d
  /\ batch' = Disturbed
  /\ rlog' = NoCall
  /\ UNCHANGED <<connVars, limiter, want, grants, waiting, trace>>
  /\ UNCHANGED searchVars

\* wait_for_tokens (lines 87-116).  Times are in units of 1/Scale second
\* where a sleep is measured.
\* lines 99-102: the sleep after a denied acquire
wait_time(rl) ==
  IF rl.refill_rate > 0
  THEN Min((Scale * Scale) \div rl.refill_rate, Scale)
  ELSE Scale

NoWait ==
  [start |-> 0, timeout |-> 0, wake |-> 0, tries |-> 0, granted |-> 0,
   debit |-> 0, result |-> "none", end |-> 0]

\* a caller invokes wait_for_tokens(n, timeout): start_time is read (line 91)
CallWaitForTokens(c, n, timeout) ==
  /\ pc[c] = "idle"
  /\ now + timeout <= MaxTime
  /\ pc' = [pc EXCEPT ![c] = "w_test"]
  /\ op' = [op EXCEPT ![c] = "wait_for_tokens"]
  /\ want' = [want EXCEPT ![c] = n]
  /\ waiting' = [waiting EXCEPT ![c] =
                    [NoWait EXCEPT !.start = now, !.timeout = timeout]]
  /\ rlog' = NoCall
  /\ UNCHANGED <<connection, lock, closed, ret, observed, att, ended, tlog,
                 limiter, now, batch, grants, trace>>
  /\ UNCHANGED searchVars

\* wait_for_tokens returning False as soon as an acquire is denied
WaitAttemptGivingUp(c) ==
  /\ pc[c] = "w_test"
  /\ LET w == waiting[c]
         a == acquire(limiter, want[c], now)
     IN IF now - w.start < w.timeout
        THEN /\ limiter' = a.rl
             /\ rlog' = [op |-> "acquire", n |-> want[c], before |-> 0,
                         refilled |-> a.refilled, ok |-> a.ok]
             /\ waiting' = [waiting EXCEPT ![c] =
                   [w EXCEPT !.granted = @ + (IF a.ok THEN 1 ELSE 0),
                             !.debit = @ + a.refilled - a.rl.tokens,
                             !.tries = @ + (IF a.ok THEN 0 ELSE 1),
                             !.result = IF a.ok THEN "true" ELSE "false",
                             !.end = now]]
             /\ pc' = [pc EXCEPT ![c] = "idle"]
             /\ op' = [op EXCEPT ![c] = "none"]
             /\ want' = [want EXCEPT ![c] = 0]
        ELSE /\ waiting' = [waiting EXCEPT ![c] =
                              [w EXCEPT !.result = "false", !.end = now]]
             /\ pc' = [pc EXCEPT ![c] = "idle"]
             /\ op' = [op EXCEPT ![c] = "none"]
             /\ want' = [want EXCEPT ![c] = 0]
             /\ rlog' = NoCall
             /\ UNCHANGED limiter
  /\ batch' = Disturbed
  /\ UNCHANGED <<connection, lock, closed, ret, observed, att, ended, tlog,
                 now, grants, trace>>
  /\ UNCHANGED searchVars

\* the loop test of line 93 and, inside the loop, acquire and the choice of
\* wait_time (lines 94-102), up to the await of the sleep (line 109); out
\* of the loop, return False (line 116)
WaitAttempt(c) ==
  /\ pc[c] = "w_test"
  /\ LET w == waiting[c]
         a == acquire(limiter, want[c], now)
     IN IF now - w.start < w.timeout
        THEN /\ limiter' = a.rl
             /\ rlog' = [op |-> "acquire", n |-> want[c], before |-> 0,
                         refilled |-> a.refilled, ok |-> a.ok]
             /\ IF a.ok
                THEN /\ waiting' = [waiting EXCEPT ![c] =
                           [w EXCEPT !.granted = @ + 1,
                                     !.debit = @ + a.refilled - a.rl.tokens,
                                     !.result = "true",
                                     !.end = now]]
                     /\ pc' = [pc EXCEPT ![c] = "idle"]
                     /\ op' = [op EXCEPT ![c] = "none"]
                     /\ want' = [want EXCEPT ![c] = 0]
                ELSE /\ waiting' = [waiting EXCEPT ![c] =
                           [w EXCEPT !.debit = @ + a.refilled - a.rl.tokens,
                                     !.tries = @ + 1,
                                     !.wake = now * Scale + wait_time(a.rl)]]
                     /\ pc' = [pc EXCEPT ![c] = "w_sleep"]
                     /\ UNCHANGED <<op, want>>
        ELSE /\ waiting' = [waiting EXCEPT ![c] =
                              [w EXCEPT !.result = "false", !.end = now]]
             /\ pc' = [pc EXCEPT ![c] = "idle"]
             /\ op' = [op EXCEPT ![c] = "none"]
             /\ want' = [want EXCEPT ![c] = 0]
             /\ rlog' = NoCall
             /\ UNCHANGED limiter
  /\ batch' = Disturbed
  /\ UNCHANGED <<connection, lock, closed, ret, observed, att, ended, tlog,
                 now, grants, trace>>
  /\ UNCHANGED searchVars

\* asyncio.sleep(wait_time) is over (line 109): back to the loop test
WaitWake(c) ==
  /\ pc[c] = "w_sleep"
  /\ now * Scale >= waiting[c].wake
  /\ pc' = [pc EXCEPT ![c] = "w_test"]
  /\ rlog' = NoCall
  /\ UNCHANGED <<connection, lock, closed, op, ret, observed, att, ended,
                 tlog, limiter, now, want, batch, grants, waiting, trace>>
  /\ UNCHANGED searchVars

\* time passes by a second or by the whole window of request_times
WindowTickSteps == {1, Window}

\* the clock readings taken so far, when the clock moves by WindowTickSteps
WindowTicksOf(t) == (t \div Window) + (t % Window)

WindowTick(d) ==
  /\ WindowTicksOf(now + d) <= MaxTicks
  /\ now' = now + d
  /\ batch' = Disturbed
  /\ rlog' = NoCall
  /\ UNCHANGED <<connVars, limiter, want, grants, waiting, trace>>
  /\ UNCHANGED searchVars

(* --------------------------------------- server.py handle_tool_call actions *)
\* a tool call arrives (lines 105-123); an unknown name raises ValueError
CallTool(c, known) ==
  /\ pc[c] = "idle"
  /\ IF known
     THEN /\ pc' = [pc EXCEPT ![c] = "t_acquire"]
          /\ op' = [op EXCEPT ![c] = "tool"]
          /\ ended' = NoEnd
     ELSE /\ ended' = [End(c, "none", NoAttempt, connection.is_connected,
                           <<>>, "unknown_tool") EXCEPT !.op = "tool"]
          /\ UNCHANGED <<pc, op>>
  /\ tlog' = <<>>
  /\ UNCHANGED <<connection, lock, closed, ret, observed, att, rlVars, trace>>
  /\ UNCHANGED searchVars

\* the tool call going on whatever acquire returned
ToolAcquireUnchecked(c) ==
  /\ pc[c] = "t_acquire"
  /\ LET a == acquire(limiter, 1, now)
         tr == Append(trace[c], "acquire")
     IN /\ CanRecord(a)
        /\ limiter' = a.rl
        /\ rlog' = [op |-> "acquire", n |-> 1, before |-> 0,
                    refilled |-> a.refilled, ok |-> a.ok]
        /\ batch' = CountAcquire(1, a.ok)
        /\ grants' = grants
        /\ IF TRUE
           THEN /\ pc' = [pc EXCEPT ![c] = "ec_lock"]
                /\ trace' = [trace EXCEPT ![c] = tr]
                /\ ended' = NoEnd
                /\ UNCHANGED op
           ELSE /\ pc' = [pc EXCEPT ![c] = "idle"]
                /\ op' = [op EXCEPT ![c] = "none"]
                /\ trace' = [trace EXCEPT ![c] = <<>>]
                /\ ended' = End(c, "none", NoAttempt, connection.is_connected,
                                tr, "rate_limit_error")
  /\ tlog' = <<>>
  /\ UNCHANGED <<connection, lock, closed, ret, observed, att, now, want,
                 waiting>>
  /\ UNCHANGED searchVars

\* self.rate_limiter.acquire() (lines 126-127)
ToolAcquire(c) ==
  /\ pc[c] = "t_acquire"
  /\ LET a == acquire(limiter, 1, now)
         tr == Append(trace[c], "acquire")
     IN /\ CanRecord(a)
        /\ limiter' = a.rl
        /\ rlog' = [op |-> "acquire", n |-> 1, before |-> 0,
                    refilled |-> a.refilled, ok |-> a.ok]
        /\ batch' = CountAcquire(1, a.ok)
        /\ grants' = grants
        /\ IF a.ok
           THEN /\ pc' = [pc EXCEPT ![c] = "ec_lock"]
                /\ trace' = [trace EXCEPT ![c] = tr]
                /\ ended' = NoEnd
                /\ UNCHANGED op
           ELSE /\ pc' = [pc EXCEPT ![c] = "idle"]
                /\ op' = [op EXCEPT ![c] = "none"]
                /\ trace' = [trace EXCEPT ![c] = <<>>]
                /\ ended' = End(c, "none", NoAttempt, connection.is_connected,
                                tr, "rate_limit_error")
  /\ tlog' = <<>>
  /\ UNCHANGED <<connection, lock, closed, ret, observed, att, now, want,
                 waiting>>
  /\ UNCHANGED searchVars

\* matching_tool.execute(arguments) (line 134) completes or raises
ToolExecute(c, succeeds) ==
  /\ pc[c] = "t_exec"
  /\ pc' = [pc EXCEPT ![c] = "idle"]
  /\ op' = [op EXCEPT ![c] = "none"]
  /\ ret' = [ret EXCEPT ![c] = "none"]
  /\ trace' = [trace EXCEPT ![c] = <<>>]
  /\ ended' = End(c, ret[c], NoAttempt, connection.is_connected,
                  Append(trace[c], "execute"),
                  IF succeeds THEN "result" ELSE "tool_error")
  /\ tlog' = <<>>
  /\ UNCHANGED <<connection, lock, closed, observed, att, rlVars>>
  /\ UNCHANGED searchVars

(* ------------------------------------- search_service.py SearchService *)
\* the inputs of the searches
Rep(ch, n) == [i \in 1..n |-> ch]

Note(id, title, body, tags) ==
  [id |-> id, title |-> title, body |-> body, tags |-> tags]

SearchCallers == {1, 2}

\* the exceptions of JoplinClient.search_notes (joplin_client.py 124-147)
UpstreamErrors == {"Connection failed", "Search failed: HTTP 500"}

\* the ValueError of SearchResult.validate_query
MsgEmptyQuery == "Query must be a non-empty string"
SearchQueries == {<<"a">>, <<"A", " ">>}
SearchLimits == {0, 2}
SearchTickSteps == {1, CleanupInterval}

\* the clock readings taken so far, when the clock moves by SearchTickSteps
TicksOf(t) == (t \div CleanupInterval) + (t % CleanupInterval)
TtlChoices == {1}

\* what the upstream answers: notes in the order Joplin lists them
N1 == Note("n1", <<"c", " ", "a">>, <<>>, <<>>)
N2 == Note("n2", <<"b">>, <<"a">>, <<>>)
N3 == Note("n3", <<"b", " ", "a">>, <<>>, <<>>)
Responses == {<<>>, <<N2>>, <<N2, N1, N3>>, <<N3, N1, N2>>}

\* score_and_rank of every answer the upstream can give, computed once
Ranked ==
  [q \in SearchQueries, r \in Responses, l \in SearchLimits |->
     score_and_rank(q, r, l)]

NoSearch ==
  [op |-> "none", caller |-> 0, query |-> <<>>, limit |-> 0,
   key |-> create_cache_key(<<>>, 0, NoNotebook), entry |-> NoEntry,
   outcome |-> "none", upstream |-> <<>>, items |-> <<>>,
   has_more |-> FALSE, upstream_error |-> NoError, error |-> NoError,
   swept |-> {}]

IdleCall == [pc |-> "idle", query |-> <<>>, limit |-> 0]

\* _maybe_cleanup_cache sweeping on every call
maybe_cleanup_cache_always(c, ttl_seconds, last, current_time) ==
  [cache |-> cleanup_expired(c, ttl_seconds, current_time),
   last_cleanup |-> current_time]

\* _maybe_cleanup_cache (lines 289-294): the cache and _last_cleanup after
maybe_cleanup_cache(c, ttl_seconds, last, current_time) ==
  IF current_time - last > CleanupInterval
  THEN [cache |-> cleanup_expired(c, ttl_seconds, current_time),
        last_cleanup |-> current_time]
  ELSE [cache |-> c, last_cleanup |-> last]

\* search_notes up to the upstream call (lines 68-100): cleanup, cache
\* lookup, and the cached items returned, with has_more=False (line 91),
\* when the lookup yields a non-empty list
SearchLookup(c, query, limit) ==
  /\ spc[c].pc = "idle"
  /\ LET m == maybe_cleanup_cache(cache, ttl, last_cleanup, clock)
         key == create_cache_key(query, limit, NoNotebook)
         g == cache_get(m.cache, key, ttl, clock)
         hit == g.found /\ g.results # <<>>
     IN /\ cache' = g.cache
        /\ last_cleanup' = m.last_cleanup
        /\ spc' = [spc EXCEPT ![c] =
                     IF hit THEN IdleCall
                     ELSE [pc |-> "fetch", query |-> query, limit |-> limit]]
        /\ slog' = [op |-> "lookup", caller |-> c, query |-> query,
                    limit |-> limit, key |-> key,
                    entry |-> Entry(cache, key),
                    outcome |-> IF ~hit THEN "miss"
                                ELSE IF ValidQuery(query) THEN "hit"
                                ELSE "raise",
                    upstream |-> <<>>,
                    items |-> IF hit /\ ValidQuery(query) THEN g.results
                              ELSE <<>>,
                    has_more |-> FALSE,
                    upstream_error |-> NoError,
                    error |-> IF hit /\ ~ValidQuery(query)
                              THEN MsgEmptyQuery ELSE NoError,
                    swept |-> DOMAIN cache \ DOMAIN m.cache]
  /\ UNCHANGED <<ttl, clock, fn, prep>>
  /\ UNCHANGED <<connVars, rlVars, trace>>

\* search_notes caching the empty answer of the upstream too
SearchFetchedCachingEmpty(c, response) ==
  /\ spc[c].pc = "fetch"
  /\ LET query == spc[c].query
         limit == spc[c].limit
         key == create_cache_key(query, limit, NoNotebook)
         final_results == Ranked[query, response, limit]
     IN /\ cache' = cache_set(cache, key, final_results, clock)
        /\ slog' = [op |-> "fetch", caller |-> c, query |-> query,
                    limit |-> limit, key |-> key,
                    entry |-> Entry(cache, key),
                    outcome |-> IF ~ValidQuery(query) THEN "raise"
                                ELSE IF response = <<>> THEN "empty"
                                ELSE "fetched",
                    upstream |-> response,
                    items |-> IF ValidQuery(query) /\ response # <<>>
                              THEN final_results ELSE <<>>,
                    has_more |-> /\ ValidQuery(query)
                                 /\ Len(response) > limit,
                    upstream_error |-> NoError,
                    error |-> IF ValidQuery(query) THEN NoError
                              ELSE MsgEmptyQuery,
                    swept |-> {}]
  /\ spc' = [spc EXCEPT ![c] = IdleCall]
  /\ UNCHANGED <<ttl, last_cleanup, clock, fn, prep>>
  /\ UNCHANGED <<connVars, rlVars, trace>>

\* search_notes leaving an entry that another call wrote meanwhile
SearchFetchedKeepFirst(c, response) ==
  /\ spc[c].pc = "fetch"
  /\ LET query == spc[c].query
         limit == spc[c].limit
         key == create_cache_key(query, limit, NoNotebook)
         final_results == Ranked[query, response, limit]
     IN /\ cache' = IF response = <<>> \/ key \in DOMAIN cache THEN cache
                    ELSE cache_set(cache, key, final_results, clock)
        /\ slog' = [op |-> "fetch", caller |-> c, query |-> query,
                    limit |-> limit, key |-> key,
                    entry |-> Entry(cache, key),
                    outcome |-> IF ~ValidQuery(query) THEN "raise"
                                ELSE IF response = <<>> THEN "empty"
                                ELSE "fetched",
                    upstream |-> response,
                    items |-> IF ValidQuery(query) /\ response # <<>>
                              THEN final_results ELSE <<>>,
                    has_more |-> /\ ValidQuery(query)
                                 /\ Len(response) > limit,
                    upstream_error |-> NoError,
                    error |-> IF ValidQuery(query) THEN NoError
                              ELSE MsgEmptyQuery,
                    swept |-> {}]
  /\ spc' = [spc EXCEPT ![c] = IdleCall]
  /\ UNCHANGED <<ttl, last_cleanup, clock, fn, prep>>
  /\ UNCHANGED <<connVars, rlVars, trace>>

\* the upstream call returns (lines 100-154): nothing found, or the items
\* are scored, ranked, cut to limit, cached and returned
SearchFetched(c, response) ==
  /\ spc[c].pc = "fetch"
  /\ LET query == spc[c].query
         limit == spc[c].limit
         key == create_cache_key(query, limit, NoNotebook)
         final_results == Ranked[query, response, limit]
     IN /\ cache' = IF response = <<>> THEN cache
                    ELSE cache_set(cache, key, final_results, clock)
        /\ slog' = [op |-> "fetch", caller |-> c, query |-> query,
                    limit |-> limit, key |-> key,
                    entry |-> Entry(cache, key),
                    outcome |-> IF ~ValidQuery(query) THEN "raise"
                                ELSE IF response = <<>> THEN "empty"
                                ELSE "fetched",
                    upstream |-> response,
                    items |-> IF ValidQuery(query) /\ response # <<>>
                              THEN final_results ELSE <<>>,
                    has_more |-> /\ ValidQuery(query)
                                 /\ Len(response) > limit,
                    upstream_error |-> NoError,
                    error |-> IF ValidQuery(query) THEN NoError
                              ELSE MsgEmptyQuery,
                    swept |-> {}]
  /\ spc' = [spc EXCEPT ![c] = IdleCall]
  /\ UNCHANGED <<ttl, last_cleanup, clock, fn, prep>>
  /\ UNCHANGED <<connVars, rlVars, trace>>

\* search_notes calling the upstream again after a failure
SearchFailedRetrying(c, e) ==
  /\ spc[c].pc = "fetch"
  /\ slog' = [NoSearch EXCEPT !.op = "fetch", !.caller = c,
                              !.query = spc[c].query,
                              !.limit = spc[c].limit,
                              !.key = create_cache_key(spc[c].query,
                                                       spc[c].limit,
                                                       NoNotebook),
                              !.outcome = "retry",
                              !.upstream_error = e]
  /\ UNCHANGED spc
  /\ UNCHANGED <<cache, ttl, last_cleanup, clock, fn, prep>>
  /\ UNCHANGED <<connVars, rlVars, trace>>

\* client.search_notes raises e; search_notes logs it and re-raises it
\* with a bare raise (lines 156-158)
SearchFailed(c, e) ==
  /\ spc[c].pc = "fetch"
  /\ slog' = [NoSearch EXCEPT !.op = "fetch", !.caller = c,
                              !.query = spc[c].query,
                              !.limit = spc[c].limit,
                              !.key = create_cache_key(spc[c].query,
                                                       spc[c].limit,
                                                       NoNotebook),
                              !.outcome = "raise",
                              !.upstream_error = e,
                              !.error = e]
  /\ spc' = [spc EXCEPT ![c] = IdleCall]
  /\ UNCHANGED <<cache, ttl, last_cleanup, clock, fn, prep>>
  /\ UNCHANGED <<connVars, rlVars, trace>>

\* SearchService.clear_cache (lines 296-299)
ClearCache ==
  /\ cache' = EmptyCache
  /\ slog' = [NoSearch EXCEPT !.op = "clear"]
  /\ UNCHANGED <<ttl, last_cleanup, clock, spc, fn, prep>>
  /\ UNCHANGED <<connVars, rlVars, trace>>

\* time passes for the search service
SearchTick(d) ==
  /\ TicksOf(clock + d) <= MaxTicks
  /\ clock' = clock + d
  /\ slog' = NoSearch
  /\ UNCHANGED <<cache, ttl, last_cleanup, spc, fn, prep>>
  /\ UNCHANGED <<connVars, rlVars, trace>>

\* one upstream item is scored and its result item built (lines 119-127)
NoItem == [note_id |-> "none", title |-> <<>>, snippet |-> <<>>,
           relevance_score |-> 0]

ScoreItem ==
  /\ fn.out = NoItem
  /\ fn' = [fn EXCEPT !.out = SearchResultItem(fn.query, fn.item)]
  /\ UNCHANGED <<cache, ttl, last_cleanup, clock, spc, slog, prep>>
  /\ UNCHANGED <<connVars, rlVars, trace>>

\* the queries of two search_notes calls are turned into cache keys and
\* upstream parameters (lines 73 and 100-102)
NoPrepared == [key |-> create_cache_key(<<>>, 0, NoNotebook), sent |-> <<>>]

PrepareQueries ==
  /\ ~prep.done
  /\ prep' = [prep EXCEPT !.done = TRUE,
                          !.first = prepare_query(prep.q1, prep.limit,
                                                  prep.nb1),
                          !.second = prepare_query(prep.q2, prep.limit2,
                                                   prep.nb2)]
  /\ UNCHANGED <<cache, ttl, last_cleanup, clock, spc, slog, fn>>
  /\ UNCHANGED <<connVars, rlVars, trace>>

(* ------------------------------------------------------------ behaviours *)
InitConnection(choices) ==
  /\ \E m \in choices : connection = Connection(m)
  /\ lock = Nobody
  /\ closed = FALSE
  /\ pc = [c \in Callers |-> "idle"]
  /\ op = [c \in Callers |-> "none"]
  /\ ret = [c \in Callers |-> "none"]
  /\ observed = [c \in Callers |-> "none"]
  /\ att = NoAttempt
  /\ ended = NoEnd
  /\ tlog = <<>>
  /\ trace = [c \in Callers |-> <<>>]

\* the queries and notes the scoring is applied to
ScoreQueries ==
  {<<"a">>, <<"A">>, <<" ", "a">>, <<"a", "a">>, <<" ">>}
Titles ==
  {<<>>, <<"a">>, <<"b">>, <<"b", " ", "a">>, <<"a", "a">>, <<"A", "b">>}
Bodies ==
  {<<>>, <<"a">>, <<"b">>, <<"a", "a", "a", "a", "a">>,
   <<"b", " ", " ", "a">>}
TagLists ==
  {<<>>, << <<"a">> >>,
   << <<"a">>, <<"A">>, <<"b", "a">>, <<"a", "b">> >>}
ShortNotes ==
  {Note("n1", t, b, g) : t \in Titles, b \in Bodies, g \in TagLists}
LongNotes ==
  {Note("n1", <<"b">>, Rep("b", 60) \o <<"a">> \o Rep("b", 250), <<>>),
   Note("n1", <<"b">>, Rep(" ", 60) \o <<"a">> \o Rep(" ", 250), <<>>),
   Note("n1", <<"b">>, Rep("b", 10) \o <<"a">> \o Rep("b", 100), <<>>),
   Note("n1", <<"b">>, Rep("b", 100) \o <<"a">> \o Rep("b", 120), <<>>),
   Note("n1", <<"b">>, Rep("b", 10) \o <<"a">> \o Rep("b", 250), <<>>),
   Note("n1", <<"b">>, Rep("b", 300), <<>>),
   Note("n1", Rep("b", 201), <<>>, <<>>)}

NoFn == [query |-> <<>>, item |-> Note("none", <<>>, <<>>, <<>>), out |-> NoItem]

\* the queries whose preparation is compared
KeyQueries ==
  {<<>>, <<"a">>, <<"A">>, <<" ", "a">>, <<"a", " ">>, <<"a", "b">>,
   <<"a", " ", "b">>, <<"a", " ", " ", "b">>, <<"A", " ", " ", "b">>,
   Rep("a", QueryLimit), Rep("a", QueryLimit + 1)}

\* two calls of search_notes(query, limit, notebook_id) still to be prepared
PreparedCalls(q1, l1, nb1, q2, l2, nb2) ==
  [q1 |-> q1, limit |-> l1, nb1 |-> nb1, q2 |-> q2, limit2 |-> l2,
   nb2 |-> nb2, done |-> FALSE, first |-> NoPrepared, second |-> NoPrepared]

Prepared(q1, q2, limit) ==
  PreparedCalls(q1, limit, NoNotebook, q2, limit, NoNotebook)

NoPrep == Prepared(<<>>, <<>>, 0)

\* SearchService.__init__ at time 0 (lines 58-62)
InitSearch(ttls, inputs) ==
  /\ cache = EmptyCache
  /\ ttl \in ttls
  /\ last_cleanup = 0
  /\ clock = 0
  /\ spc = [c \in SearchCallers |-> IdleCall]
  /\ slog = NoSearch
  /\ fn \in inputs
  /\ prep = NoPrep

InitLimiter(rpms, bursts) ==
  /\ now = 0
  /\ \E rpm \in rpms, burst \in bursts : limiter = RateLimiter(rpm, burst, 0)
  /\ want = [c \in Callers |-> 0]
  /\ rlog = NoCall
  /\ batch = FullBucket
  /\ grants = NoGrants
  /\ waiting = [c \in Callers |-> NoWait]

EnsureConnectedStep ==
  \E c \in Callers : CallEnsureConnected(c) \/ EnsureConnectedEnter(c)
LivenessProbeStep ==
  \E c \in Callers, o \in PingOutcome : EnsureConnectedPing(c, o)
ConnectPingStep == \E c \in Callers, o \in PingOutcome : ConnectPing(c, o)
RetryWakeStep == \E c \in Callers : RetryWake(c)
ReconnectStep == \E c \in Callers : CallReconnect(c) \/ ReconnectEnter(c)
DisconnectStep ==
  \E c \in Callers :
     CallDisconnect(c) \/ DisconnectEnter(c) \/ DisconnectClose(c)
HealthCheckStep ==
  \E c \in Callers, o \in PingOutcome :
     CallHealthCheck(c) \/ HealthCheckPing(c, o)
AcquireStep ==
  \E c \in Callers :
     (\E n \in TokensRequested : CallAcquire(c, n)) \/ Acquire(c)
ConfigureStep ==
  \/ \E rpm \in RpmChoices \cup {NoArg} : Configure(rpm, NoArg)
  \/ \E burst \in 0..MaxBurst : Configure(NoArg, burst)
TickStep == \E d \in TickSteps : Tick(d)
ToolStep ==
  \E c \in Callers :
     \/ \E known \in BOOLEAN : CallTool(c, known)
     \/ ToolAcquire(c)
     \/ EnsureConnectedEnter(c)
     \/ \E succeeds \in BOOLEAN : ToolExecute(c, succeeds)

\* the ConnectionManager under concurrent callers
InitConn ==
  /\ InitConnection({0, 1, MaxRetriesBound})
  /\ InitLimiter({60}, {MaxBurst})
  /\ InitSearch({DefaultTtl}, {NoFn})

NextConn ==
  \/ EnsureConnectedStep
  \/ LivenessProbeStep
  \/ ConnectPingStep
  \/ RetryWakeStep
  \/ ReconnectStep
  \/ DisconnectStep
  \/ HealthCheckStep

SpecConn == InitConn /\ [][NextConn]_vars

\* Two callers contend for the lock with the operations that take it, on a
\* manager in any state they can bring about.
LockCallers == {1, 2}

InitLock ==
  /\ InitConnection({1, MaxRetriesBound})
  /\ InitLimiter({60}, {MaxBurst})
  /\ InitSearch({DefaultTtl}, {NoFn})

NextLock ==
  \E c \in LockCallers :
     \/ CallEnsureConnected(c)
     \/ EnsureConnectedEnter(c)
     \/ \E o \in PingOutcome : EnsureConnectedPing(c, o)
     \/ \E o \in PingOutcome : ConnectPing(c, o)
     \/ RetryWake(c)
     \/ CallReconnect(c)
     \/ ReconnectEnter(c)
     \/ CallDisconnect(c)
     \/ DisconnectEnter(c)
     \/ DisconnectClose(c)

\* The scheduling of the event loop: asyncio.Lock wakes its waiters in the
\* order they arrived, so a waiter that finds the lock free again and again
\* is not passed over for ever (strong fairness of the three lock entries);
\* a probe, the retry_delay sleep and client.close() that have been awaited
\* complete (weak fairness).
FairConn ==
  \A c \in LockCallers :
     /\ SF_vars(EnsureConnectedEnter(c))
     /\ SF_vars(ReconnectEnter(c))
     /\ SF_vars(DisconnectEnter(c))
     /\ WF_vars(\E o \in PingOutcome : EnsureConnectedPing(c, o))
     /\ WF_vars(\E o \in PingOutcome : ConnectPing(c, o))
     /\ WF_vars(RetryWake(c))
     /\ WF_vars(DisconnectClose(c))

SpecConnFair == InitLock /\ [][NextLock]_vars /\ FairConn

\* the RateLimiter under concurrent callers and a monotonic clock
InitRL ==
  /\ InitConnection({MaxRetriesBound})
  /\ InitLimiter(RpmChoices, 0..MaxBurst)
  /\ InitSearch({DefaultTtl}, {NoFn})

NextRL ==
  \/ AcquireStep
  \/ GetStatus
  \/ Reset
  \/ ConfigureStep
  \/ TickStep

SpecRL == InitRL /\ [][NextRL]_vars

\* the RateLimiter while the clock passes the window of request_times
InitWindow ==
  /\ InitConnection({MaxRetriesBound})
  /\ InitLimiter({1, 60}, {1, MaxBurst})
  /\ InitSearch({DefaultTtl}, {NoFn})

WindowTickStep == \E d \in WindowTickSteps : WindowTick(d)
AcquireRecordedStep ==
  \E c \in Callers :
     (\E n \in TokensRequested : CallAcquire(c, n)) \/ AcquireRecorded(c)

NextWindow ==
  \/ AcquireRecordedStep
  \/ GetStatus
  \/ Reset
  \/ WindowTickStep

SpecWindow == InitWindow /\ [][NextWindow]_vars

\* a task waiting for tokens, call after call, while time passes.  The
\* event loop runs a task that is ready, a sleep ends and the clock moves
\* on (weak fairness).
WaitRpms == {0, 60, 120}
WaitTimeouts == 0..MaxTime

InitWait ==
  /\ InitConnection({MaxRetriesBound})
  /\ InitLimiter(WaitRpms, 1..MaxBurst)
  /\ InitSearch({DefaultTtl}, {NoFn})

WaitCallers == {1}

WaitStep ==
  \E c \in WaitCallers :
     \/ \E n \in TokensRequested, timeout \in WaitTimeouts :
          CallWaitForTokens(c, n, timeout)
     \/ WaitAttempt(c)
     \/ WaitWake(c)

NextWait ==
  \/ WaitStep
  \/ TickStep

FairWait ==
  /\ WF_vars(TickStep)
  /\ \A c \in WaitCallers : WF_vars(WaitAttempt(c)) /\ WF_vars(WaitWake(c))

SpecWait == InitWait /\ [][NextWait]_vars /\ FairWait

\* the RateLimiter with no reset and no configure, every grant recorded
NextGrants ==
  \/ AcquireRecordedStep
  \/ GetStatus
  \/ TickStep

SpecGrants == InitRL /\ [][NextGrants]_vars

\* concurrent tool invocations through handle_tool_call
InitTool ==
  /\ InitConnection({0, 2})
  /\ InitLimiter({60}, {1})
  /\ InitSearch({DefaultTtl}, {NoFn})

NextTool ==
  \/ ToolStep
  \/ LivenessProbeStep
  \/ ConnectPingStep
  \/ RetryWakeStep
  \/ DisconnectStep
  \/ TickStep

SpecTool == InitTool /\ [][NextTool]_vars

\* the SearchService under overlapping search_notes calls
SearchStep ==
  \E c \in SearchCallers :
     \/ \E q \in SearchQueries, l \in SearchLimits : SearchLookup(c, q, l)
     \/ \E r \in Responses : SearchFetched(c, r)
     \/ \E e \in UpstreamErrors : SearchFailed(c, e)
SearchTickStep == \E d \in SearchTickSteps : SearchTick(d)

InitSearchService ==
  /\ InitConnection({MaxRetriesBound})
  /\ InitLimiter({60}, {MaxBurst})
  /\ InitSearch(TtlChoices, {NoFn})

NextSearch ==
  \/ SearchStep
  \/ ClearCache
  \/ SearchTickStep

SpecSearch == InitSearchService /\ [][NextSearch]_vars

\* _calculate_relevance and _generate_snippet applied to one query and
\* one upstream item
InitScore ==
  /\ InitConnection({MaxRetriesBound})
  /\ InitLimiter({60}, {MaxBurst})
  /\ InitSearch({DefaultTtl},
                {[query |-> q, item |-> n, out |-> NoItem] :
                   q \in ScoreQueries, n \in ShortNotes \cup LongNotes})

NextScore == ScoreItem

SpecScore == InitScore /\ [][NextScore]_vars

\* search_notes preparing the queries of two calls
InitKey ==
  /\ InitConnection({MaxRetriesBound})
  /\ InitLimiter({60}, {MaxBurst})
  /\ cache = EmptyCache
  /\ ttl = DefaultTtl
  /\ last_cleanup = 0
  /\ clock = 0
  /\ spc = [c \in SearchCallers |-> IdleCall]
  /\ slog = NoSearch
  /\ fn = NoFn
  /\ prep \in {Prepared(q1, q2, 2) : q1 \in KeyQueries, q2 \in KeyQueries}

NextKey == PrepareQueries

SpecKey == InitKey /\ [][NextKey]_vars

\* pairs of search_notes calls that differ in query, limit or notebook
CallQueries == {<<"a">>, <<"A", " ">>, <<"b">>, <<"a", ":", "1", ":", "b">>}
CallLimits == {1, 2, 10}
CallNotebooks ==
  {NoNotebook, AllNotebooks, <<"b">>, <<"c">>, <<"b", ":", "2", ":", "c">>}

InitCacheKey ==
  /\ InitConnection({MaxRetriesBound})
  /\ InitLimiter({60}, {MaxBurst})
  /\ cache = EmptyCache
  /\ ttl = DefaultTtl
  /\ last_cleanup = 0
  /\ clock = 0
  /\ spc = [c \in SearchCallers |-> IdleCall]
  /\ slog = NoSearch
  /\ fn = NoFn
  /\ prep \in {PreparedCalls(q1, l1, nb1, q2, l2, nb2) :
                 q1 \in CallQueries, l1 \in CallLimits, nb1 \in CallNotebooks,
                 q2 \in CallQueries, l2 \in CallLimits, nb2 \in CallNotebooks}

SpecCacheKey == InitCacheKey /\ [][NextKey]_vars

(* ================================================================ claims *)
\* C1: with max_retries = 3 and a probe that never succeeds,
\* ensure_connected() entered on a Disconnected manager returns false
\* (does not raise) after exactly 4 probes and leaves the state Error.
C1_RetryExhaustion ==
  (/\ ended.op = "ensure_connected"
   /\ ended.entry = "disconnected"
   /\ connection.max_retries = 3
   /\ ended.ret # "true")
  => (/\ ended.ret = "false"
      /\ ended.pings = 4
      /\ ended.state = "error")

\* C2: retry_count never exceeds max_retries.
C2_RetryBound == connection.retry_count <= connection.max_retries

\* The transition table as the claim states it.
ClaimTable(from) ==
  CASE from = "disconnected" -> {"connecting"}
    [] from = "connecting" -> {"connected", "error", "disconnected"}
    [] from = "connected" -> {"disconnected", "error"}
    [] from = "error" -> {"connecting", "disconnected"}

Applied(log) == SelectSeq(log, LAMBDA e : ~e.raised)

\* C3: every transition_to request outside the table (self-transitions
\* included) raises and leaves state, last_error and retry_count as they
\* were; every request inside the table is applied; and the state of the
\* connection changes in a step only along the chain of applied requests.
C3_TransitionLegality ==
  /\ [](\A i \in 1..Len(tlog) :
          LET e == tlog[i] IN
            /\ e.raised <=> e.to \notin ClaimTable(e.from)
            /\ e.raised => e.after = e.before
            /\ ~e.raised => e.after.is_connected = e.to)
  /\ [][LET ap == Applied(tlog') IN
          /\ ap = <<>> => connection'.is_connected = connection.is_connected
          /\ ap # <<>> =>
               /\ ap[1].from = connection.is_connected
               /\ ap[Len(ap)].to = connection'.is_connected
               /\ \A i \in 1..(Len(ap) - 1) : ap[i].to = ap[i + 1].from]_vars

C3_Witness ==
  \E i \in 1..Len(tlog) : tlog[i].raised /\ tlog[i].from = tlog[i].to

InSequence == {"ec_ping", "cwr_ping", "cwr_sleep"}

\* C4: at most one caller is inside the ensure/retry sequence (liveness
\* probe, loop probes, retry_delay sleeps), and that caller holds the lock.
C4_OneAttemptInFlight ==
  /\ Cardinality({c \in Callers : pc[c] \in InSequence}) <= 1
  /\ \A c \in Callers : pc[c] \in InSequence => lock = c

C4_Witness ==
  \E c, d \in Callers :
     /\ pc[c] = "cwr_sleep"
     /\ pc[d] \in {"ec_lock", "rc_lock"}

C6_RejectWhenNotConnected ==
  /\ \A c \in Callers : pc[c] = "t_exec" => ret[c] # "false"
  /\ (ended.op = "tool" /\ ended.ret = "false")
       => /\ ended.outcome = "error"
          /\ \A i \in 1..Len(ended.trace) : ended.trace[i] # "execute"

ToolOrder == <<"acquire", "ensure_connected", "execute">>

IsPrefix(s, t) == Len(s) <= Len(t) /\ \A i \in 1..Len(s) : s[i] = t[i]

\* C7: a tool invocation runs acquire, then ensure_connected, then the tool
\* handler, in this order; when acquire returns false it ends with a
\* rate-limit error having run nothing else, and ensure_connected and the
\* handler run only after acquire returned true.
C7_ToolCallOrder ==
  /\ [](/\ \A c \in Callers :
             /\ IsPrefix(trace[c], ToolOrder)
             /\ pc[c] = "t_acquire" => trace[c] = <<>>
             /\ (op[c] = "tool" /\ pc[c] = "ec_lock")
                  => trace[c] = <<"acquire">>
             /\ (op[c] = "tool" /\ pc[c] \in InSequence \cup {"t_exec"})
                  => trace[c] = <<"acquire", "ensure_connected">>
        /\ ended.op = "tool"
             => /\ IsPrefix(ended.trace, ToolOrder)
                /\ ended.outcome = "rate_limit_error"
                     => ended.trace = <<"acquire">>
                /\ ended.outcome \in {"result", "tool_error"}
                     => ended.trace = ToolOrder)
  /\ [][\A c \in Callers :
          (pc[c] = "t_acquire" /\ pc'[c] # "t_acquire")
          => /\ rlog'.op = "acquire"
             /\ rlog'.ok => (pc'[c] = "ec_lock" /\ ended' = NoEnd)
             /\ ~rlog'.ok => (/\ pc'[c] = "idle"
                              /\ ended'.caller = c
                              /\ ended'.outcome = "rate_limit_error"
                              /\ ended'.trace = <<"acquire">>)]_vars

C7_Witness ==
  /\ ended.op = "tool"
  /\ ended.outcome = "rate_limit_error"
  /\ \E c \in Callers : op[c] = "tool" /\ pc[c] \in InSequence \cup {"t_exec"}

\* C8: a successful acquire(n), n >= 1, leaves tokens exactly n below the
\* post-refill count it was decided against, and tokens is never negative.
C8_TokenConservation ==
  /\ limiter.tokens >= 0
  /\ (rlog.op = "acquire" /\ rlog.ok)
       => /\ rlog.n >= 1
          /\ limiter.tokens = rlog.refilled - rlog.n * Scale

C8_Witness ==
  /\ rlog.op = "acquire"
  /\ rlog.ok
  /\ rlog.refilled % Scale # 0
  /\ limiter.tokens < Scale

\* C9: 0 <= tokens <= capacity (burst_size) after any sequence of acquire,
\* get_status, reset and configure calls under a monotonic clock.
C9_TokensWithinCapacity ==
  /\ 0 <= limiter.tokens
  /\ limiter.tokens <= limiter.burst_size * Scale

\* configure has just shrunk burst_size below the tokens held
C9_Witness ==
  /\ rlog.op = "configure"
  /\ rlog.before > limiter.burst_size * Scale
  /\ limiter.tokens = limiter.burst_size * Scale
  /\ limiter.last_refill > 0

\* C10: every acquire is decided against the single current token count;
\* of two acquire(1) calls run back to back with fewer than two tokens
\* available the second is denied; and of the acquire(1) calls run on a full
\* bucket with no time elapsing exactly burst_size are granted, after which
\* tokens is 0 and every further call is denied.
C10_SerializedAcquire ==
  /\ [](/\ rlog.op = "acquire"
             => (rlog.ok <=> rlog.refilled >= rlog.n * Scale)
        /\ batch.clean
             => /\ batch.ok * Scale = limiter.burst_size * Scale - limiter.tokens
                /\ batch.ok <= limiter.burst_size
                /\ batch.denied > 0
                     => (batch.ok = limiter.burst_size /\ limiter.tokens = 0))
  /\ [][(/\ rlog.op = "acquire" /\ rlog.n = 1 /\ rlog.ok
         /\ rlog.refilled < 2 * Scale
         /\ rlog'.op = "acquire" /\ rlog'.n = 1)
        => ~rlog'.ok]_vars

C10_Witness ==
  /\ batch.clean
  /\ limiter.burst_size >= 2
  /\ batch.ok = limiter.burst_size
  /\ batch.denied >= 1
  /\ limiter.tokens = 0
  /\ \E c \in Callers : pc[c] = "acq" /\ want[c] = 1

\* C11: on a limiter that is fresh (or has just been reset) with
\* burst_size = B and no time elapsing, the k-th sequential acquire(1)
\* returns true exactly when k <= B: B + 1 calls give B times true and
\* then false.
C11_BurstThenDenied ==
  /\ [](batch.clean /\ batch.ok + batch.denied = limiter.burst_size + 1
          => batch.ok = limiter.burst_size /\ batch.denied = 1)
  /\ [][(/\ batch.clean /\ batch'.clean
         /\ rlog'.op = "acquire" /\ rlog'.n = 1)
        => (rlog'.ok <=> batch.ok + batch.denied < limiter.burst_size)]_vars

C11_Witness ==
  /\ now = 0
  /\ batch.clean
  /\ limiter.burst_size = MaxBurst
  /\ batch.ok = MaxBurst
  /\ batch.denied = 1
  /\ rlog.op = "acquire" /\ ~rlog.ok

\* C12: an acquire(n) that finds fewer than n tokens after the refill pass
\* returns false, leaves tokens at the post-refill value and records no
\* timestamp in request_times (which only loses pruned entries).
C12_DeniedAcquireFrame ==
  [][(rlog'.op = "acquire" /\ ~rlog'.ok)
       => /\ rlog'.refilled < rlog'.n * Scale
          /\ limiter'.tokens = rlog'.refilled
          /\ limiter'.tokens >= limiter.tokens
          /\ \E k \in 0..Len(limiter.request_times) :
                limiter'.request_times =
                  SubSeq(limiter.request_times, k + 1,
                         Len(limiter.request_times))]_vars

C12_Witness ==
  /\ rlog.op = "acquire" /\ ~rlog.ok /\ rlog.n = 2
  /\ limiter.tokens >= Scale
  /\ limiter.request_times # <<>>

\* C13: of the acquire(1) calls made in rapid succession on a limiter with
\* requests_per_minute = R >= 1, at most R return true.
C13_PerMinuteLimit ==
  (batch.clean /\ limiter.requests_per_minute >= 1)
    => batch.ok <= limiter.requests_per_minute

C15_CachedWithinTtl ==
  [][(slog'.op = "lookup" /\ slog'.key \in DOMAIN cache)
       => LET c == slog'.caller
              e == cache[slog'.key]
          IN IF clock - e.timestamp <= ttl
             THEN /\ slog'.outcome = "hit"
                  /\ slog'.items = e.results
                  /\ spc'[c].pc = "idle"
             ELSE /\ slog'.outcome = "miss"
                  /\ spc'[c].pc = "fetch"]_vars

\* C16: items served from the cache were stored at most ttl seconds before
\* the call, and a lookup that finds an entry older than ttl treats it as
\* absent and removes it.
C16_NoStaleItems ==
  [][(slog'.op = "lookup")
       => LET key == slog'.key
          IN /\ slog'.outcome = "hit"
                  => /\ key \in DOMAIN cache
                     /\ clock - cache[key].timestamp <= ttl
                     /\ slog'.items = cache[key].results
             /\ (key \in DOMAIN cache /\ clock - cache[key].timestamp > ttl)
                  => /\ slog'.outcome = "miss"
                     /\ key \notin DOMAIN cache']_vars

C16_Witness ==
  /\ slog.op = "lookup"
  /\ slog.outcome = "miss"
  /\ slog.entry.results # <<>>
  /\ clock - slog.entry.timestamp > ttl
  /\ slog.key \notin DOMAIN cache

\* position of the note in the upstream answer
UpstreamIndex(upstream, note_id) ==
  CHOOSE k \in 1..Len(upstream) : upstream[k].id = note_id

\* C17: for limit >= 1 the items returned by a search that fetched are
\* upstream items in descending relevance_score, equal scores in upstream
\* order, at most limit of them, and none left out outranks one returned.
C17_RankedAndBounded ==
  (slog.op = "fetch" /\ slog.outcome = "fetched" /\ slog.limit >= 1)
    => LET it == slog.items
           up == slog.upstream
       IN /\ Len(it) <= slog.limit
          /\ Len(it) = Min(slog.limit, Len(up))
          /\ \A i \in 1..Len(it) :
                \E k \in 1..Len(up) : up[k].id = it[i].note_id
          /\ \A i, j \in 1..Len(it) :
                i < j =>
                  /\ it[i].relevance_score >= it[j].relevance_score
                  /\ it[i].relevance_score = it[j].relevance_score
                       => UpstreamIndex(up, it[i].note_id)
                            < UpstreamIndex(up, it[j].note_id)
          /\ \A k \in 1..Len(up) :
                (\A i \in 1..Len(it) : it[i].note_id # up[k].id)
                  => \A i \in 1..Len(it) :
                        calculate_relevance(slog.query, up[k])
                          <= it[i].relevance_score

C17_Witness ==
  /\ slog.op = "fetch" /\ slog.outcome = "fetched" /\ slog.limit >= 1
  /\ Len(slog.upstream) > slog.limit
  /\ Len(slog.items) = slog.limit
  /\ slog.items[1].note_id # slog.upstream[1].id
  /\ \E i, j \in 1..Len(slog.items) :
        i < j /\ slog.items[i].relevance_score = slog.items[j].relevance_score

\* the title contains the text, compared case-insensitively
TitleHas(text, note) == Contains(Lower(text), Lower(note.title))

\* C18: for a query that is not blank, a candidate whose title contains
\* the query (case-insensitively) scores strictly higher than every
\* candidate whose title does not contain it.
C18_TitleMatchOutranks ==
  (fn.out # NoItem /\ ValidQuery(fn.query) /\ TitleHas(fn.query, fn.item))
    => \A other \in ShortNotes :
          ~TitleHas(fn.query, other)
            => fn.out.relevance_score > calculate_relevance(fn.query, other)

\* C18 as the code has it: the query is stripped of surrounding whitespace
\* before it is looked for, and a candidate whose title contains the
\* stripped query scores strictly higher than every candidate whose title
\* does not.
C18_StrippedTitleMatchOutranks ==
  (fn.out # NoItem /\ ValidQuery(fn.query) /\ TitleHas(Strip(fn.query), fn.item))
    => \A other \in ShortNotes :
          ~TitleHas(Strip(fn.query), other)
            => fn.out.relevance_score > calculate_relevance(fn.query, other)

C18_Witness ==
  /\ fn.out # NoItem
  /\ Strip(fn.query) # fn.query
  /\ TitleHas(Strip(fn.query), fn.item)
  /\ ~TitleHas(fn.query, fn.item)
  /\ fn.out.relevance_score < ScoreScale
  /\ \E other \in ShortNotes :
        /\ ~TitleHas(Strip(fn.query), other)
        /\ calculate_relevance(fn.query, other) >= Weight(4)

C20_SnippetLength ==
  fn.out # NoItem => Len(fn.out.snippet) <= snippet_length

\* the snippet was cut from the body around the first occurrence of the
\* query: the title does not contain the query and the body does
CutFromBody(query, item) ==
  /\ ~Contains(Strip(Lower(query)), Lower(item.title))
  /\ Contains(Strip(Lower(query)), Lower(item.body))

EndsWith(s, sub) == MatchAt(sub, s, Len(s) - Len(sub))

\* C21: a snippet is at most 200 characters plus at most 6 characters of
\* ellipsis markers; only a snippet cut from the body carries markers, a
\* leading "..." only when the window does not start at position 0 of the
\* body (the match lies more than 50 characters in and the body is longer
\* than 200) and a trailing "..." only when the window does not reach the
\* end of the body.
C21_SnippetLengthWithMarkers ==
  fn.out # NoItem
    => LET s == fn.out.snippet
           body == fn.item.body
           pos == Find(Strip(Lower(fn.query)), Lower(body))
           leading == StartsWith(s, Ellipsis)
           trailing == Len(s) >= Len(Ellipsis) /\ EndsWith(s, Ellipsis)
       IN /\ Len(s) <= snippet_length + 6
          /\ Len(s) > snippet_length => leading \/ trailing
          /\ Len(s) > snippet_length + 3 => leading /\ trailing
          /\ leading
               => /\ CutFromBody(fn.query, fn.item)
                  /\ pos > ContextBefore
                  /\ Len(body) > snippet_length
          /\ trailing
               => /\ CutFromBody(fn.query, fn.item)
                  /\ Len(body) > Max(0, pos - ContextBefore) + snippet_length

C21_Witness ==
  /\ fn.out # NoItem
  /\ CutFromBody(fn.query, fn.item)
  /\ Len(fn.out.snippet) = snippet_length + 3
  /\ StartsWith(fn.out.snippet, Ellipsis)
  /\ ~EndsWith(fn.out.snippet, Ellipsis)

\* C22: the cache key and the upstream parameter are made of the query
\* with its whitespace runs collapsed and cut to 200 characters, so two
\* queries that are the same after that use the same cache key and send
\* the same upstream parameter.
C22_SanitizedQuery ==
  prep.done
    => /\ prep.first.sent = sanitize_query(prep.q1)
       /\ prep.first.key
            = create_cache_key(sanitize_query(prep.q1), prep.limit, NoNotebook)
       /\ sanitize_query(prep.q1) = sanitize_query(prep.q2)
            => /\ prep.first.key = prep.second.key
               /\ prep.first.sent = prep.second.sent

\* C23: has_more of a search that fetched equals (candidates returned by
\* the upstream > limit), and a search served from the cache reports the
\* has_more of the call that populated the entry (here the call that
\* ended in the step before).
C23_HasMore ==
  /\ [](slog.op = "fetch" /\ slog.outcome = "fetched"
          => slog.has_more = (Len(slog.upstream) > slog.limit))
  /\ [][(/\ slog.op = "fetch" /\ slog.outcome = "fetched"
          /\ slog'.op = "lookup" /\ slog'.outcome = "hit"
          /\ slog'.key = slog.key)
            => slog'.has_more = slog.has_more]_vars

\* C24: reconnect() obtaining the lock in any connection state moves the
\* state to Disconnected without an error, resets retry_count and enters
\* the retry loop while it holds the lock.
C24_ReconnectAnyState ==
  [][\A c \in Callers :
       (pc[c] = "rc_lock" /\ pc'[c] # "rc_lock")
         => /\ tlog' # <<>>
            /\ tlog'[1].to = "disconnected"
            /\ ~tlog'[1].raised
            /\ tlog'[1].after.is_connected = "disconnected"
            /\ att'.loops = 1 \/ ended'.loops = 1
            /\ pc'[c] \in InSequence => lock' = c]_vars

\* C25: disconnect() ends, in whatever state it was called, by returning
\* with the state Disconnected and the upstream client closed.
C25_DisconnectAnyState ==
  ended.op = "disconnect"
    => /\ ended.ret = "returned"
       /\ ended.state = "disconnected"
       /\ connection.is_connected = "disconnected"
       /\ closed

\* C26: the step in which health_check() takes the result of its probe
\* leaves the connection (state, retry_count, last_error) as it was, and
\* health_check returns whatever the probe did.
C26_HealthCheckFrame ==
  [][\A c \in Callers :
       (pc[c] = "hc_ping" /\ pc'[c] # "hc_ping")
         => /\ connection' = connection
            /\ ended'.op = "health_check"
            /\ ended'.ret = "returned"]_vars

C26_Witness ==
  /\ ended.op = "health_check"
  /\ ended.outcome \in {"fail", "raise"}
  /\ connection.is_connected = "connected"
  /\ connection.last_error = NoError

\* C27: when the upstream search call fails, the search ends in that step
\* (the upstream is not called again), the caller gets the upstream's
\* exception and the cache is left as it was.
C27_UpstreamFailurePropagates ==
  [][slog'.upstream_error # NoError
       => /\ slog'.outcome = "raise"
          /\ slog'.error = slog'.upstream_error
          /\ spc[slog'.caller].pc = "fetch"
          /\ spc'[slog'.caller] = IdleCall
          /\ cache' = cache]_vars

C27_Witness ==
  /\ slog.outcome = "raise"
  /\ slog.upstream_error \in UpstreamErrors
  /\ slog.key \notin DOMAIN cache
  /\ cache # EmptyCache

C30_NoIllegalRequest == \A i \in 1..Len(tlog) : ~tlog[i].raised

\* C36: whenever the connection state is Connected, retry_count is 0 and
\* last_error is empty, also in the state in which ensure_connected() or
\* reconnect() has just returned true.
C36_ConnectedIsClean ==
  /\ connection.is_connected = "connected"
       => connection.retry_count = 0 /\ connection.last_error = NoError
  /\ (ended.op \in {"ensure_connected", "reconnect"} /\ ended.ret = "true")
       => /\ connection.is_connected = "connected"
          /\ connection.retry_count = 0
          /\ connection.last_error = NoError

C36_Witness ==
  /\ ended.op = "reconnect"
  /\ ended.ret = "true"
  /\ ended.entry = "error"
  /\ ended.pings = MaxRetriesBound
  /\ connection.is_connected = "connected"
  /\ connection.retry_count = 0
  /\ connection.last_error = NoError

\* an entry of the cache that is older than ttl at the time of the clock
Expired(k) == clock - cache[k].timestamp > ttl

\* C34: a search call made more than 300 seconds after the last sweep
\* evicts every entry older than ttl before its lookup and sets the sweep
\* time to now; a call made within 300 seconds of the last sweep does not
\* sweep, and removes an expired entry only if it is the entry of the key
\* it looks up.  Entries that are not expired stay as they are.
C34_PeriodicSweep ==
  [][slog'.op = "lookup"
       => /\ clock - last_cleanup > CleanupInterval
               => /\ last_cleanup' = clock
                  /\ \A k \in DOMAIN cache : Expired(k) => k \notin DOMAIN cache'
                  /\ slog'.swept = {k \in DOMAIN cache : Expired(k)}
          /\ clock - last_cleanup <= CleanupInterval
               => /\ last_cleanup' = last_cleanup
                  /\ slog'.swept = {}
                  /\ \A k \in DOMAIN cache :
                        k # slog'.key
                          => k \in DOMAIN cache' /\ cache'[k] = cache[k]
                  /\ (slog'.key \in DOMAIN cache /\ Expired(slog'.key))
                        => slog'.key \notin DOMAIN cache'
          /\ \A k \in DOMAIN cache :
                ~Expired(k) => k \in DOMAIN cache' /\ cache'[k] = cache[k]]_vars

C34_Witness ==
  /\ slog.op = "lookup"
  /\ \E k \in slog.swept : k # slog.key
  /\ last_cleanup = clock
  /\ cache # EmptyCache

\* C35: a search that fetched writes its own ranked items under its key
\* and returns them, whatever entry another search wrote under that key
\* since this one missed: the entry afterwards is exactly the list of the
\* later writer, stamped with its time.
C35_LastWriterWins ==
  [][(slog'.op = "fetch" /\ slog'.outcome = "fetched")
       => LET own == Ranked[slog'.query, slog'.upstream, slog'.limit]
          IN /\ slog'.items = own
             /\ slog'.key \in DOMAIN cache'
             /\ cache'[slog'.key] = [timestamp |-> clock, results |-> own]
             /\ \A k \in DOMAIN cache :
                   k # slog'.key => k \in DOMAIN cache' /\ cache'[k] = cache[k]
             /\ spc'[slog'.caller] = IdleCall]_vars

C35_Witness ==
  /\ slog.op = "fetch"
  /\ slog.outcome = "fetched"
  /\ slog.entry.results # <<>>
  /\ clock - slog.entry.timestamp <= ttl
  /\ slog.entry.results # slog.items
  /\ cache[slog.key].results = slog.items

C33_KeyIffSameCall ==
  prep.done =>
    ((prep.first.key = prep.second.key)
       <=> /\ Lower(Strip(prep.q1)) = Lower(Strip(prep.q2))
           /\ prep.limit = prep.limit2
           /\ prep.nb1 = prep.nb2)

\* the operations that take the lock, and where a caller waits for it or
\* holds it
LockedOps == {"ensure_connected", "reconnect", "disconnect"}
LockWaits == {"ec_lock", "rc_lock", "dc_lock"}
LockHeld == {"ec_ping", "cwr_ping", "cwr_sleep", "dc_close"}
LoopProbes(e) ==
  e.pings - (IF e.op = "ensure_connected" /\ e.entry = "connected"
             THEN 1 ELSE 0)

\* the lock and the probes counted when an operation has just ended
C37_LockReleased ==
  /\ ended.op \in LockedOps
       => /\ lock = Nobody
          /\ pc[ended.caller] = "idle"
          /\ LoopProbes(ended) <= connection.max_retries
  /\ lock # Nobody => pc[lock] \in LockHeld
  /\ \A c \in Callers : pc[c] \in LockHeld => lock = c

RECURSIVE GrantedIn(_, _, _)
GrantedIn(g, t1, t2) ==
  IF t1 > t2 THEN 0
  ELSE (IF t1 \in DOMAIN g THEN g[t1] ELSE 0) + GrantedIn(g, t1 + 1, t2)

\* C38: with the clock only moving forward and no reset or configure in
\* between, the tokens granted by successful acquire calls in any interval
\* of T seconds are at most burst_size + T * refill_rate.
C38_GrantsBounded ==
  \A t1 \in 0..now, t2 \in 0..now :
     t1 <= t2
       => GrantedIn(grants, t1, t2) * Scale
            <= limiter.burst_size * Scale + (t2 - t1) * limiter.refill_rate

C38_Witness ==
  /\ rlog.op = "acquire"
  /\ rlog.ok
  /\ limiter.refill_rate > 0
  /\ limiter.burst_size > 0
  /\ \E t1 \in 0..now :
        /\ t1 < now
        /\ GrantedIn(grants, t1, t1) > 0
        /\ GrantedIn(grants, t1, now) * Scale
             = limiter.burst_size * Scale + (now - t1) * limiter.refill_rate

\* the state of request_times after the call of the last step
Sorted(times) ==
  \A i \in 1..Len(times), j \in 1..Len(times) : i <= j => times[i] <= times[j]
Recent(times, cutoff_time) == SelectSeq(times, LAMBDA t : t >= cutoff_time)

\* request_times after a refill pass and after reset
C32_WindowKept ==
  /\ Sorted(limiter.request_times)
  /\ rlog.op \in {"acquire", "get_status"}
       => \A i \in 1..Len(limiter.request_times) :
             limiter.request_times[i] >= now - Window
  /\ rlog.op = "reset"
       => /\ limiter.request_times = <<>>
          /\ limiter.tokens = limiter.burst_size * Scale

\* C32: after the refill pass of an acquire or a get_status made at time
\* now, every entry of request_times is at least now - 60; the entries are
\* always in non-decreasing order; an acquire leaves the entries of the last
\* 60 seconds and appends now exactly when it grants; and reset() leaves no
\* entry and a full bucket.
C32_OneEntryPerGrant ==
  /\ []C32_WindowKept
  /\ [][/\ rlog'.op = "acquire"
          => limiter'.request_times
               = Recent(limiter.request_times, now - Window)
                   \o (IF rlog'.ok THEN <<now>> ELSE <<>>)
        /\ rlog'.op = "get_status"
          => limiter'.request_times
               = Recent(limiter.request_times, now - Window)]_vars

C32_Witness ==
  /\ rlog.op = "acquire"
  /\ rlog.ok
  /\ Len(limiter.request_times) >= 2
  /\ Head(limiter.request_times) = now - Window
  /\ \E t \in DOMAIN grants : t < now - Window

\* the positions of a wait_for_tokens call
Waits == {"w_test", "w_sleep"}

\* min(1/refill_rate, 1.0) in units of 1/Scale second; refill_rate is in
\* 1/Scale token per second
ExpectedSleep(rate) ==
  IF rate = 0 THEN Scale
  ELSE IF rate >= Scale THEN (Scale * Scale) \div rate ELSE Scale

\* what a wait_for_tokens call has returned against what it did
C31_WaitResult ==
  \A c \in Callers :
     LET w == waiting[c]
     IN /\ w.granted <= 1
        /\ (w.result = "true") <=> (w.granted = 1)
        /\ w.granted = 1 => pc[c] \notin Waits
        /\ w.result = "false" => w.end - w.start >= w.timeout
        /\ w.result = "none" => w.debit = 0

\* one step of a wait_for_tokens call: return, sleep or wake
C31_WaitStep ==
  \A c \in Callers :
     /\ (pc[c] = "w_test" /\ pc'[c] = "idle")
          => /\ waiting'[c].result \in {"true", "false"}
             /\ waiting'[c].result = "true"
                  => /\ rlog'.op = "acquire" /\ rlog'.ok
                     /\ rlog'.n = want[c]
                     /\ waiting'[c].debit = want[c] * Scale
                     /\ limiter'.tokens = rlog'.refilled - want[c] * Scale
             /\ waiting'[c].result = "false"
                  => /\ waiting'[c].debit = 0
                     /\ limiter' = limiter
     /\ (pc[c] = "w_test" /\ pc'[c] = "w_test") => waiting'[c] = waiting[c]
     /\ (pc[c] = "w_test" /\ pc'[c] = "w_sleep")
          => /\ rlog'.op = "acquire" /\ ~rlog'.ok
             /\ waiting'[c].wake
                  = now * Scale + ExpectedSleep(limiter'.refill_rate)
     /\ (pc[c] = "w_sleep" /\ pc'[c] # "w_sleep")
          => /\ pc'[c] = "w_test"
             /\ now * Scale >= waiting[c].wake

\* C31: wait_for_tokens(n, timeout) ends; it returns true exactly when one
\* of its acquire(n) attempts was granted, which took n tokens once; it
\* returns false only when timeout or more has elapsed since it started;
\* and after every denied attempt it sleeps min(1/refill_rate, 1.0) seconds,
\* or 1.0 second when refill_rate is 0.
C31_WaitTerminates ==
  /\ []C31_WaitResult
  /\ [][C31_WaitStep]_vars
  /\ \A c \in Callers : (pc[c] \in Waits) ~> (pc[c] = "idle")

C31_Witness ==
  \E c \in Callers :
     /\ waiting[c].result = "true"
     /\ waiting[c].tries >= 1
     /\ waiting[c].wake % Scale # 0
====
